---- MODULE Spec2Model ----
(***************************************************************************)
(* RWGPS route-stats worker: the stale-while-revalidate cache in front of  *)
(* the RideWithGPS API (worker/src/index.js, cache.js, rwgps.js,           *)
(* renderer.js, calculator.js).                                            *)
(*                                                                         *)
(* JavaScript values that are not numbers or strings are encoded so that   *)
(* every field keeps one TLA+ type: a numeric field holds a natural number *)
(* or one of the negative sentinels Undefined, NaN, Null; a string field   *)
(* holds the string or NullStr.                                            *)
(***************************************************************************)
EXTENDS Integers, Sequences, FiniteSets, Bags, TLC

Undefined == -1000001
NaN == -1000002
Null == -1000003
NullStr == "<null>"

Min(a, b) == IF a < b THEN a ELSE b
Max(a, b) == IF a > b THEN a ELSE b

(***************************************************************************)
(* cache.js: thresholds                                                    *)
(***************************************************************************)
CACHE_TTL_SECONDS == 86400
STALE_THRESHOLD_SECONDS == 3600
\* .slice(0, 16) of the base64 text
HashSliceChars == 16

(***************************************************************************)
(* cache.js generateDataHash: btoa(JSON.stringify({distance,               *)
(* elevationGain})).slice(0, 16).  JSON text is a sequence of one-character*)
(* strings.  JSON.stringify drops a key whose value is undefined and       *)
(* writes NaN as null.  btoa maps every 3 bytes to 4 characters,           *)
(* injectively and group by group, so the first 16 characters of the       *)
(* base64 text are determined by, and determine, the first 12 bytes of the *)
(* JSON text: the hash is modelled as that 12-byte prefix.                 *)
(***************************************************************************)
RECURSIVE Digits(_)
Digits(n) ==
  IF n < 10 THEN <<ToString(n)>> ELSE Digits(n \div 10) \o <<ToString(n % 10)>>

JsonNumber(v) ==
  IF v = NaN \/ v = Null THEN <<"n", "u", "l", "l">> ELSE Digits(v)

JsonMember(name, v) == <<"\"">> \o name \o <<"\"", ":">> \o JsonNumber(v)

JsonStringify(hashFields) ==
  LET d == hashFields.distance
      e == hashFields.elevationGain
      dm == JsonMember(<<"d", "i", "s", "t", "a", "n", "c", "e">>, d)
      em == JsonMember(<<"e", "l", "e", "v", "a", "t", "i", "o", "n",
                         "G", "a", "i", "n">>, e)
      body == IF d # Undefined /\ e # Undefined THEN dm \o <<",">> \o em
              ELSE IF d # Undefined THEN dm
              ELSE IF e # Undefined THEN em
              ELSE << >>
  IN <<"{">> \o body \o <<"}">>

BtoaSlice(text, chars) ==
  SubSeq(text, 1, Min(Len(text), (chars \div 4) * 3))

generateDataHash(routeData) ==
  LET hashFields == [distance |-> routeData.distance,
                     elevationGain |-> routeData.elevationGain]
  IN BtoaSlice(JsonStringify(hashFields), HashSliceChars)

(***************************************************************************)
(* calculator.js (categorical-cap model)                                   *)
(***************************************************************************)
\* Names that every object literal answers to through Object.prototype; the
\* two tables are plain object literals read with table[key].
InheritedMembers == {"constructor", "toString", "__proto__"}

\* a + b, Math.min(a, b) and Math.max(a, b) where NaN stands for any operand
\* that is not a number once converted (a function, an object, the text
\* they concatenate to).
Plus(a, b) == IF a = NaN \/ b = NaN THEN NaN ELSE a + b

MathMin(a, b) == IF a = NaN \/ b = NaN THEN NaN ELSE Min(a, b)

MathMax(a, b) == IF a = NaN \/ b = NaN THEN NaN ELSE Max(a, b)

getBaseScore(difficulty, terrain) ==
  CASE difficulty = "casual" -> 1
    [] difficulty = "easy" -> 2
    [] difficulty = "moderate" -> 3
    [] difficulty = "hard" -> 4
    [] difficulty \in InheritedMembers -> NaN
    [] OTHER -> IF terrain = "climbing" THEN 3
                ELSE IF terrain = "rolling" THEN 2
                ELSE 2

getTerrainModifier(terrain) ==
  IF terrain = "climbing" THEN 1
  ELSE IF terrain \in InheritedMembers THEN NaN
  ELSE 0

\* getUnpavedKm(distanceKm, unpavedPct) < 1, with distance in metres and
\* unpavedPct in percent: (unpavedPct / 100) * (distance / 1000) < 1.  A
\* negative percentage gives 0 km; x * null is 0; NaN < 1 is false.
UnpavedBelow1Km(distanceKm, distance, unpavedPct) ==
  IF unpavedPct = Undefined THEN FALSE
  ELSE IF unpavedPct < 0 THEN TRUE
  ELSE IF distanceKm \in {NaN, Undefined} THEN FALSE
  ELSE IF distanceKm = Null THEN TRUE
  ELSE unpavedPct * distance < 100000

applySurfaceCaps(rawScore, surface, terrain, difficulty, below1Km) ==
  CASE surface = "paved" -> MathMin(rawScore, 1)
    [] surface = "mostly_paved" ->
         IF below1Km THEN MathMin(rawScore, 1) ELSE MathMin(rawScore, 2)
    [] surface = "mixed_surfaces" ->
         IF below1Km THEN MathMin(rawScore, 2)
         ELSE IF terrain = "climbing" \/ difficulty = "hard" THEN rawScore
         ELSE MathMin(rawScore, 3)
    [] surface = "mostly_unpaved" ->
         IF terrain = "climbing" \/ difficulty = "hard" THEN rawScore
         ELSE MathMin(rawScore, 3)
    [] surface = "unknown" -> MathMax(rawScore, 3)
    [] OTHER -> rawScore

calculateTechnicalDifficulty(routeData) ==
  LET baseScore == getBaseScore(routeData.difficulty, routeData.terrain)
      terrainModifier == getTerrainModifier(routeData.terrain)
      rawScore == Plus(baseScore, terrainModifier)
      below1Km == UnpavedBelow1Km(routeData.distanceKm, routeData.distance,
                                  routeData.unpavedPct)
      cappedScore == applySurfaceCaps(rawScore, routeData.surface,
                                      routeData.terrain, routeData.difficulty,
                                      below1Km)
  IN MathMin(5, MathMax(1, cappedScore))

(***************************************************************************)
(* rwgps.js: the upstream client                                           *)
(***************************************************************************)
\* distanceKm is kept in tenths of a kilometre (upstream distances are
\* multiples of 100 m), so that toFixed(1) loses nothing; undefined / 1000
\* is NaN.
normalizeRouteData(route) ==
  [distance |-> route.distance,
   distanceKm |-> IF route.distance = Undefined THEN NaN
                  ELSE route.distance \div 100,
   elevationGain |-> route.elevation_gain,
   unpavedPct |-> IF route.unpaved_pct = Undefined THEN 0
                  ELSE route.unpaved_pct,
   pavedPct |-> 100 - (IF route.unpaved_pct = Undefined THEN 0
                       ELSE route.unpaved_pct),
   surface |-> IF route.surface = NullStr THEN "unknown" ELSE route.surface,
   terrain |-> IF route.terrain = NullStr THEN "unknown" ELSE route.terrain,
   difficulty |-> IF route.difficulty = NullStr THEN "unknown"
                  ELSE route.difficulty]

\* Variant of fetchRouteData: a 403 is reported like a 401.
fetchRouteDataForbiddenAsAuth(routeId, status, route) ==
  IF status \in 200..299
    THEN [ok |-> TRUE, routeData |-> normalizeRouteData(route)]
  ELSE IF status = 404
    THEN [ok |-> FALSE, message |-> <<"Route", routeId, "not found">>]
  ELSE IF status \in {401, 403}
    THEN [ok |-> FALSE, message |-> <<"RWGPS authentication failed">>]
  ELSE [ok |-> FALSE, message |-> <<"RWGPS API error", ToString(status)>>]

\* fetchRouteData: the result of one call, given the HTTP status upstream
\* answers with (response.ok is a status from 200 to 299) and the route it
\* holds.
fetchRouteData(routeId, status, route) ==
  IF status \in 200..299
    THEN [ok |-> TRUE, routeData |-> normalizeRouteData(route)]
  ELSE IF status = 404
    THEN [ok |-> FALSE, message |-> <<"Route", routeId, "not found">>]
  ELSE IF status = 401
    THEN [ok |-> FALSE, message |-> <<"RWGPS authentication failed">>]
  ELSE [ok |-> FALSE, message |-> <<"RWGPS API error", ToString(status)>>]

(***************************************************************************)
(* renderer.js                                                             *)
(***************************************************************************)
\* Math.round(x) of a numeric field: null rounds to 0, undefined to NaN.
MathRound(x) == IF x = Null THEN 0 ELSE IF x = Undefined THEN NaN ELSE x

\* distanceKm.toFixed(1) throws a TypeError on null and undefined.
RenderThrows(routeData) == routeData.distanceKm \in {Null, Undefined}

\* The card as the record of what it displays; an item left out of the card
\* is Null / NullStr.
renderRouteStatsCard(routeData, physicalDifficulty, challengeLevel) ==
  [card |-> "route-stats",
   challengeLevel |-> challengeLevel,
   elevationGain |-> MathRound(routeData.elevationGain),
   distance |-> routeData.distanceKm,
   paved |-> MathRound(routeData.pavedPct),
   unpaved |-> MathRound(routeData.unpavedPct),
   physicalDifficulty |->
     IF physicalDifficulty \in {Null, NaN, 0} THEN Null
     ELSE physicalDifficulty,
   technicalDifficulty |-> calculateTechnicalDifficulty(routeData)]

renderErrorCard(message) == [card |-> "error", message |-> message]

(***************************************************************************)
(* cache.js: entries                                                       *)
(***************************************************************************)
NoEntry == [absent |-> TRUE]

\* Variant of isStale: the age is left in milliseconds.
isStaleMillis(cached) ==
  IF cached = NoEntry \/ cached.lastFetchedAge = Undefined THEN TRUE
  ELSE cached.lastFetchedAge > STALE_THRESHOLD_SECONDS * 1000

\* Variant of isStale: an entry is stale from the threshold on.
isStaleAtThreshold(cached) ==
  IF cached = NoEntry \/ cached.lastFetchedAge = Undefined THEN TRUE
  ELSE cached.lastFetchedAge >= STALE_THRESHOLD_SECONDS

\* Variant of isStale: every entry is stale.
isStaleAlways(cached) == TRUE

\* The age of an entry is now - lastFetched, in seconds.
isStale(cached) ==
  IF cached = NoEntry \/ cached.lastFetchedAge = Undefined THEN TRUE
  ELSE cached.lastFetchedAge > STALE_THRESHOLD_SECONDS

\* Variants of hasDataChanged: one that never reports a change, one that
\* always does.
hasDataChangedNever(cached, freshRouteData) ==
  cached = NoEntry \/ cached.dataHash = << >>

hasDataChangedAlways(cached, freshRouteData) == TRUE

hasDataChanged(cached, freshRouteData) ==
  IF cached = NoEntry \/ cached.dataHash = << >> THEN TRUE
  ELSE cached.dataHash # generateDataHash(freshRouteData)

StarsPart(stars) ==
  IF stars # Null THEN (IF stars = NaN THEN "NaN" ELSE ToString(stars))
  ELSE "none"

LevelPart(level) == IF level # NullStr /\ level # "" THEN level ELSE "none"

getHtmlCacheKey(stars, level) == <<"stars", StarsPart(stars), "level", LevelPart(level)>>

\* The null that getCachedHtml returns.
NoHtml == [card |-> "null"]

getCachedHtml(cached, stars, level) ==
  IF cached = NoEntry THEN NoHtml
  ELSE IF getHtmlCacheKey(stars, level) \in DOMAIN cached.renderedHtml
    THEN cached.renderedHtml[getHtmlCacheKey(stars, level)]
  ELSE NoHtml

\* Variant of updateCachedHtml: a key that is present is removed.
updateCachedHtmlToggle(cached, stars, level, html) ==
  LET key == getHtmlCacheKey(stars, level)
  IN IF key \in DOMAIN cached.renderedHtml
     THEN [cached EXCEPT !.renderedHtml =
             [k \in (DOMAIN cached.renderedHtml) \ {key} |->
                cached.renderedHtml[k]]]
     ELSE [cached EXCEPT !.renderedHtml =
             [k \in (DOMAIN cached.renderedHtml) \cup {key} |->
                IF k = key THEN html ELSE cached.renderedHtml[k]]]

\* Variant of updateCachedHtml: the map is replaced, not extended.
updateCachedHtmlReplace(cached, stars, level, html) ==
  [cached EXCEPT !.renderedHtml = getHtmlCacheKey(stars, level) :> html]

updateCachedHtml(cached, stars, level, html) ==
  LET key == getHtmlCacheKey(stars, level)
  IN [cached EXCEPT !.renderedHtml =
        [k \in (DOMAIN cached.renderedHtml) \cup {key} |->
           IF k = key THEN html ELSE cached.renderedHtml[k]]]

\* JSON.stringify / kv.get(..., {type: 'json'}): NaN is stored as null, an
\* undefined member is dropped and reads back undefined.
JsonNum(v) == IF v = NaN THEN Null ELSE v

JsonRoundTrip(routeData) ==
  [routeData EXCEPT !.distance = JsonNum(@), !.distanceKm = JsonNum(@),
                    !.elevationGain = JsonNum(@), !.unpavedPct = JsonNum(@),
                    !.pavedPct = JsonNum(@)]

\* Variant of setCachedRoute: the hash is taken over a misnamed member, so
\* that distance is undefined in hashFields.
setCachedRouteWrongHash(routeData, renderedHtml) ==
  [dataHash |-> generateDataHash([routeData EXCEPT !.distance = Undefined]),
   lastFetchedAge |-> 0,
   routeData |-> JsonRoundTrip(routeData),
   renderedHtml |-> renderedHtml]

\* setCachedRoute: the entry one put stores.
setCachedRoute(routeData, renderedHtml) ==
  [dataHash |-> generateDataHash(routeData),
   lastFetchedAge |-> 0,
   routeData |-> JsonRoundTrip(routeData),
   renderedHtml |-> renderedHtml]

(***************************************************************************)
(* Bounds and inputs                                                       *)
(***************************************************************************)
\* requests being handled at once
MaxInflight == 1
\* ctx.waitUntil tasks pending at once
MaxTasks == 2
\* times the route changes upstream before it stays fixed (SpecLive)
MaxChanges == 1
\* requests received in one run
MaxRequests == 3

RouteIds == {"101"}

\* Scenario A's route, the same route after an edit that lengthens it, and
\* a payload that carries no distance member.
RouteA ==
  [distance |-> 50000, elevation_gain |-> 800, unpaved_pct |-> 80,
   surface |-> "mostly_unpaved", terrain |-> "climbing", difficulty |-> "hard"]
RouteB == [RouteA EXCEPT !.distance = 60000]
RouteC == [RouteA EXCEPT !.distance = Undefined]

WellFormedRoutes == {RouteA, RouteB}
PartialRoutes == {RouteA, RouteC}

\* HTTP statuses upstream answers with
FetchStatuses == {200, 404, 401, 500}

\* A query parameter that is not given is NullSeq (stars, a string kept as
\* its characters) or NullStr.
NullSeq == <<NullStr>>

Queries ==
  {[id |-> "101", stars |-> <<"3">>, level |-> "Explorer"],
   [id |-> "101", stars |-> <<"4">>, level |-> NullStr],
   [id |-> "101", stars |-> <<"0">>, level |-> NullStr],
   [id |-> NullStr, stars |-> <<"3">>, level |-> NullStr]}

PurgeParams == {NullStr, "true"}

(***************************************************************************)
(* parseInt(starsParam, 10)                                                *)
(***************************************************************************)
IsDigit(c) == c \in {"0", "1", "2", "3", "4", "5", "6", "7", "8", "9"}

DigitValue(c) == CHOOSE d \in 0..9 : ToString(d) = c

RECURSIVE LeadingDigits(_)
LeadingDigits(s) ==
  IF s = << >> \/ ~IsDigit(Head(s)) THEN << >>
  ELSE <<Head(s)>> \o LeadingDigits(Tail(s))

RECURSIVE DigitsValue(_)
DigitsValue(ds) ==
  IF ds = << >> THEN 0
  ELSE 10 * DigitsValue(SubSeq(ds, 1, Len(ds) - 1)) + DigitValue(ds[Len(ds)])

parseInt(s) ==
  LET signed == s # << >> /\ Head(s) \in {"-", "+"}
      ds == LeadingDigits(IF signed THEN Tail(s) ELSE s)
  IN IF ds = << >> THEN NaN
     ELSE IF signed /\ Head(s) = "-" THEN 0 - DigitsValue(ds)
     ELSE DigitsValue(ds)

(***************************************************************************)
(* State                                                                   *)
(***************************************************************************)
VARIABLES
  kv,        \* ROUTE_CACHE: route id -> the entry under route:<id>, or NoEntry
  upstream,  \* route id -> the route RideWithGPS holds now
  payloads,  \* the routes RideWithGPS may hold (fixed by the initial state)
  changes,   \* times a route changed upstream so far
  received,  \* requests received so far
  reqs,      \* bag of /route-stats requests between two awaits
  tasks,     \* bag of ctx.waitUntil promises not yet settled
  resp,      \* the Response returned by the step just taken, or NoResponse
  log        \* what the background step just taken did and the console
             \* line it wrote, or NoLog

vars == <<kv, upstream, payloads, changes, received, reqs, tasks, resp, log>>

NoResponse == [status |-> 0]
NoLog == [step |-> "none"]
\* purge has not run / has run and removed `entry`
NotDeleted == [deleted |-> FALSE]
Deleted(entry) == [deleted |-> TRUE, entry |-> entry]
NoHash == << >>

\* A response, with the request it answers, the path that produced it, the
\* entry the request read and the tasks it handed to ctx.waitUntil.
Response(status, contentType, body, dataHash, path, req, cached, spawned) ==
  [status |-> status, contentType |-> contentType, body |-> body,
   dataHash |-> dataHash, path |-> path, req |-> req, cached |-> cached,
   spawned |-> spawned]

\* errorResponse(message, status)
errorResponse(message, status, req) ==
  Response(status, "application/json", [error |-> message], NoHash,
           "Validation", req, NoEntry, EmptyBag)

\* htmlResponse(html, dataHash)
htmlResponse(html, dataHash, path, req, cached, spawned) ==
  Response(200, "text/html", html, dataHash, path, req, cached, spawned)

\* Variant of errorCardResponse: the failure is reported as a JSON error.
errorCardResponseJson(message, req, cached) ==
  Response(500, "application/json", [error |-> message], NoHash, "Error", req,
           cached, EmptyBag)

\* The catch block of handleRouteStats: the error card, status 200, no hash.
errorCardResponse(message, req, cached) ==
  Response(200, "text/html", renderErrorCard(message), NoHash, "Error", req,
           cached, EmptyBag)

\* The promise of one setCachedRoute call handed to ctx.waitUntil (or
\* awaited by revalidateCache), with the request inputs it was built for.
PutTask(by, id, stars, level, routeData, renderedHtml) ==
  [type |-> "put", by |-> by, id |-> id, stars |-> stars, level |-> level,
   routeData |-> routeData, renderedHtml |-> renderedHtml]

\* The promise of one revalidateCache(routeId, stars, level, env, cached)
\* call, before its fetch has returned.
RevalTask(id, stars, level, cached) ==
  [type |-> "reval", id |-> id, stars |-> stars, level |-> level,
   cached |-> cached]

Room(n) == BagCardinality(tasks) + n <= MaxTasks

Replace(bag, old, new) == (bag (-) SetToBag({old})) (+) SetToBag({new})

InitWith(routes) ==
  /\ kv = [i \in RouteIds |-> NoEntry]
  /\ payloads = routes
  /\ upstream \in [RouteIds -> routes]
  /\ changes = 0
  /\ received = 0
  /\ reqs = EmptyBag
  /\ tasks = EmptyBag
  /\ resp = NoResponse
  /\ log = NoLog

Init == InitWith(WellFormedRoutes)

(***************************************************************************)
(* handleRouteStats, GET                                                   *)
(***************************************************************************)
\* Variant of Accept: the range check on stars is left out.
AcceptAnyStars(q, purgeParam) ==
  LET routeId == q.id
      stars == IF q.stars \in {NullSeq, << >>} THEN Null ELSE parseInt(q.stars)
      level == IF q.level = "" THEN NullStr ELSE q.level
      purge == purgeParam = "true"
      req == [id |-> routeId, stars |-> stars, level |-> level,
              purge |-> purge, pc |-> IF purge THEN "purge" ELSE "lookup",
              fetches |-> 0, deleted |-> NotDeleted]
  IN /\ log' = NoLog
     /\ UNCHANGED <<kv, upstream, payloads, changes, tasks>>
     /\ IF routeId \in {NullStr, ""}
          THEN /\ resp' = errorResponse("Missing required parameter: id", 400, req)
               /\ UNCHANGED reqs
        ELSE /\ BagCardinality(reqs) < MaxInflight
             /\ reqs' = reqs (+) SetToBag({req})
             /\ resp' = NoResponse

\* Lines 166-180: parse and validate; a valid request goes on to the purge
\* or to the cache read.
Accept(q, purgeParam) ==
  LET routeId == q.id
      stars == IF q.stars \in {NullSeq, << >>} THEN Null ELSE parseInt(q.stars)
      level == IF q.level = "" THEN NullStr ELSE q.level
      purge == purgeParam = "true"
      req == [id |-> routeId, stars |-> stars, level |-> level,
              purge |-> purge, pc |-> IF purge THEN "purge" ELSE "lookup",
              fetches |-> 0, deleted |-> NotDeleted]
  IN /\ log' = NoLog
     /\ UNCHANGED <<kv, upstream, payloads, changes, tasks>>
     /\ IF routeId \in {NullStr, ""}
          THEN /\ resp' = errorResponse("Missing required parameter: id", 400, req)
               /\ UNCHANGED reqs
        ELSE IF stars # Null /\ stars # NaN /\ (stars < 1 \/ stars > 5)
          THEN /\ resp' = errorResponse("Invalid parameter: stars (must be 1-5)",
                                        400, req)
               /\ UNCHANGED reqs
        ELSE /\ BagCardinality(reqs) < MaxInflight
             /\ reqs' = reqs (+) SetToBag({req})
             /\ resp' = NoResponse

\* One GET /api/route-stats arrives.
Receive(q, purgeParam) ==
  /\ received < MaxRequests
  /\ received' = received + 1
  /\ Accept(q, purgeParam)

\* Variant of PurgeDelete: the purge flag is ignored.
PurgeSkipDelete(r) ==
  /\ r.pc = "purge"
  /\ reqs' = Replace(reqs, r, [r EXCEPT !.pc = "lookup"])
  /\ resp' = NoResponse
  /\ log' = NoLog
  /\ UNCHANGED <<kv, upstream, payloads, changes, received, tasks>>

\* Variant of PurgeDelete: the delete is reported but the key is kept.
PurgeDeleteKeep(r) ==
  /\ r.pc = "purge"
  /\ reqs' = Replace(reqs, r, [r EXCEPT !.pc = "fetch",
                                        !.deleted = Deleted(kv[r.id])])
  /\ resp' = NoResponse
  /\ log' = [step |-> "PurgeDelete", line |-> "Cache purged"]
  /\ UNCHANGED <<kv, upstream, payloads, changes, received, tasks>>

\* Lines 184-187: await env.ROUTE_CACHE.delete
PurgeDelete(r) ==
  /\ r.pc = "purge"
  /\ kv' = [kv EXCEPT ![r.id] = NoEntry]
  /\ reqs' = Replace(reqs, r, [r EXCEPT !.pc = "fetch",
                                        !.deleted = Deleted(kv[r.id])])
  /\ resp' = NoResponse
  /\ log' = [step |-> "PurgeDelete", line |-> "Cache purged"]
  /\ UNCHANGED <<upstream, payloads, changes, received, tasks>>

\* Lines 190-228: the cache read and, on a hit, everything up to the return
\* (no await lies between the read and the return).  A null read leads on to
\* the upstream fetch.
Lookup(r) ==
  LET cached == kv[r.id]
      cachedHtml == getCachedHtml(cached, r.stars, r.level)
      reval == IF isStale(cached)
               THEN SetToBag({RevalTask(r.id, r.stars, r.level, cached)})
               ELSE EmptyBag
      html == renderRouteStatsCard(cached.routeData, r.stars, r.level)
      updatedCache == updateCachedHtml(cached, r.stars, r.level, html)
      put == SetToBag({PutTask("AttributesHit", r.id, r.stars, r.level,
                               cached.routeData, updatedCache.renderedHtml)})
      \* updateCachedHtml has added the variant to the object that cached
      \* still refers to when it is handed to revalidateCache
      revalUpdated ==
        IF isStale(cached)
        THEN SetToBag({RevalTask(r.id, r.stars, r.level, updatedCache)})
        ELSE EmptyBag
  IN /\ r.pc = "lookup"
     /\ log' = NoLog
     /\ UNCHANGED <<kv, upstream, payloads, changes, received>>
     /\ IF cached = NoEntry
          THEN /\ reqs' = Replace(reqs, r, [r EXCEPT !.pc = "fetch"])
               /\ resp' = NoResponse
               /\ UNCHANGED tasks
        ELSE IF cachedHtml # NoHtml
          THEN /\ Room(BagCardinality(reval))
               /\ reqs' = reqs (-) SetToBag({r})
               /\ tasks' = tasks (+) reval
               /\ resp' = htmlResponse(cachedHtml, cached.dataHash, "VariantHit",
                                       r, cached, reval)
        ELSE IF RenderThrows(cached.routeData)
          THEN /\ reqs' = reqs (-) SetToBag({r})
               /\ resp' = errorCardResponse(<<"TypeError">>, r, cached)
               /\ UNCHANGED tasks
        ELSE /\ Room(BagCardinality(put (+) revalUpdated))
             /\ reqs' = reqs (-) SetToBag({r})
             /\ tasks' = tasks (+) put (+) revalUpdated
             /\ resp' = htmlResponse(html, cached.dataHash, "AttributesHit", r,
                                     cached, put (+) revalUpdated)

\* Line 190 and the catch block: kv.get rejects (or the stored text does not
\* parse); the throw leaves the try block and the handler returns the error
\* card.
LookupFail(r) ==
  /\ r.pc = "lookup"
  /\ reqs' = reqs (-) SetToBag({r})
  /\ resp' = errorCardResponse(<<"KV GET failed">>, r, NoEntry)
  /\ log' = [step |-> "LookupFail", req |-> r,
             line |-> "Error processing route"]
  /\ UNCHANGED <<kv, upstream, payloads, changes, received, tasks>>

\* Variant of MissCacheKey: the level part is left out.
MissCacheKeyNoLevel(stars, level) ==
  <<"stars", StarsPart(stars), "level", "none">>

\* Variant of MissCacheKey: the stars part is left out.
MissCacheKeyNoStars(stars, level) ==
  <<"stars", "none", "level", LevelPart(level)>>

\* The variant key as lines 245-247 build it.
MissCacheKey(stars, level) ==
  <<"stars", StarsPart(stars), "level", LevelPart(level)>>

\* Lines 231-252 and the catch block: the upstream fetch returns with
\* `status`; the request renders, hands the write to ctx.waitUntil and
\* returns.
MissFetch(r, status) ==
  LET res == fetchRouteData(r.id, status, upstream[r.id])
      done == [r EXCEPT !.fetches = @ + 1, !.pc = "done"]
      routeData == res.routeData
      html == renderRouteStatsCard(routeData, r.stars, r.level)
      dataHash == generateDataHash(routeData)
      put == SetToBag({PutTask("Miss", r.id, r.stars, r.level, routeData,
                               MissCacheKey(r.stars, r.level) :> html)})
  IN /\ r.pc = "fetch"
     /\ log' = NoLog
     /\ reqs' = reqs (-) SetToBag({r})
     /\ UNCHANGED <<kv, upstream, payloads, changes, received>>
     /\ IF ~res.ok
          THEN /\ resp' = errorCardResponse(res.message, done, NoEntry)
               /\ UNCHANGED tasks
        ELSE IF RenderThrows(routeData)
          THEN /\ resp' = errorCardResponse(<<"TypeError">>, done, NoEntry)
               /\ UNCHANGED tasks
        ELSE /\ Room(1)
             /\ tasks' = tasks (+) put
             /\ resp' = htmlResponse(html, dataHash, "Miss", done, NoEntry, put)

(***************************************************************************)
(* Background work                                                         *)
(***************************************************************************)
\* Variant of CatchRevalidation: a failed revalidation drops the entry.
CatchRevalidationEvict(cache, t) == [cache EXCEPT ![t.id] = NoEntry]

\* revalidateCache lines 102-104: the catch block logs and leaves the cache
\* as it is.
CatchRevalidation(cache, t) == cache

\* revalidateCache lines 77-96: the fetch returns with `status`; on changed
\* data the task renders and issues its put, otherwise it ends.
RevalFetch(t, status) ==
  LET res == fetchRouteData(t.id, status, upstream[t.id])
      freshRouteData == res.routeData
      html == renderRouteStatsCard(freshRouteData, t.stars, t.level)
      updatedCache ==
        updateCachedHtml([t.cached EXCEPT !.routeData = freshRouteData,
                            !.dataHash = generateDataHash(freshRouteData)],
                         t.stars, t.level, html)
      put == PutTask("Revalidation", t.id, t.stars, t.level,
                     freshRouteData, updatedCache.renderedHtml)
  IN /\ t.type = "reval"
     /\ resp' = NoResponse
     /\ UNCHANGED <<upstream, payloads, changes, received, reqs>>
     /\ kv' = IF res.ok THEN kv ELSE CatchRevalidation(kv, t)
     /\ IF ~res.ok
          THEN /\ tasks' = tasks (-) SetToBag({t})
               /\ log' = [step |-> "RevalFetch", task |-> t, ok |-> FALSE,
                          line |-> "Background revalidation failed"]
        ELSE IF hasDataChanged(t.cached, freshRouteData)
          THEN /\ tasks' = Replace(tasks, t, put)
               /\ log' = [step |-> "RevalFetch", task |-> t, ok |-> TRUE,
                          freshRouteData |-> freshRouteData, line |-> ""]
        ELSE /\ tasks' = tasks (-) SetToBag({t})
             /\ log' = [step |-> "RevalFetch", task |-> t, ok |-> TRUE,
                        freshRouteData |-> freshRouteData,
                        line |-> "Data unchanged, skipping update"]

\* Variant of PutLand: a write that finds its own content already stored
\* drops the entry.
PutLandOnce(t) ==
  /\ t.type = "put"
  /\ kv' = [kv EXCEPT ![t.id] =
              IF /\ kv[t.id] # NoEntry
                 /\ kv[t.id].routeData = JsonRoundTrip(t.routeData)
                 /\ kv[t.id].renderedHtml = t.renderedHtml
              THEN NoEntry
              ELSE setCachedRoute(t.routeData, t.renderedHtml)]
  /\ tasks' = tasks (-) SetToBag({t})
  /\ resp' = NoResponse
  /\ log' = [step |-> "PutLand", task |-> t,
             line |-> IF t.by = "Revalidation" THEN "Data changed, cache updated"
                      ELSE ""]
  /\ UNCHANGED <<upstream, payloads, changes, received, reqs>>

\* kv.put of a setCachedRoute call takes effect.
PutLand(t) ==
  /\ t.type = "put"
  /\ kv' = [kv EXCEPT ![t.id] = setCachedRoute(t.routeData, t.renderedHtml)]
  /\ tasks' = tasks (-) SetToBag({t})
  /\ resp' = NoResponse
  /\ log' = [step |-> "PutLand", task |-> t,
             line |-> IF t.by = "Revalidation" THEN "Data changed, cache updated"
                      ELSE ""]
  /\ UNCHANGED <<upstream, payloads, changes, received, reqs>>

\* Variant of PutFail: the rejection reaches a client as an error card.
PutFailSurfaces(t) ==
  /\ t.type = "put"
  /\ kv' = kv
  /\ tasks' = tasks (-) SetToBag({t})
  /\ resp' = errorCardResponse(<<"KV PUT failed">>,
                               [id |-> t.id, stars |-> t.stars,
                                level |-> t.level, purge |-> FALSE,
                                pc |-> "done", fetches |-> 0,
                                deleted |-> NotDeleted], NoEntry)
  /\ log' = [step |-> "PutFail", task |-> t, line |-> ""]
  /\ UNCHANGED <<upstream, payloads, changes, received, reqs>>

\* kv.put rejects: ctx.waitUntil drops the rejection, revalidateCache
\* catches it.
PutFail(t) ==
  /\ t.type = "put"
  /\ kv' = IF t.by = "Revalidation" THEN CatchRevalidation(kv, t) ELSE kv
  /\ tasks' = tasks (-) SetToBag({t})
  /\ resp' = NoResponse
  /\ log' = [step |-> "PutFail", task |-> t,
             line |-> IF t.by = "Revalidation"
                      THEN "Background revalidation failed" ELSE ""]
  /\ UNCHANGED <<upstream, payloads, changes, received, reqs>>

(***************************************************************************)
(* Environment                                                             *)
(***************************************************************************)
\* Time passes until the entry reaches the next age at which isStale or the
\* store's expiry can answer differently: the staleness threshold, one
\* second past it, the hard TTL (when the store drops the key).
NextAge(age) ==
  IF age < STALE_THRESHOLD_SECONDS THEN STALE_THRESHOLD_SECONDS
  ELSE IF age = STALE_THRESHOLD_SECONDS THEN STALE_THRESHOLD_SECONDS + 1
  ELSE CACHE_TTL_SECONDS

Expire(entry, expirationTtl) ==
  IF entry = NoEntry THEN NoEntry
  ELSE IF NextAge(entry.lastFetchedAge) >= expirationTtl THEN NoEntry
  ELSE [entry EXCEPT !.lastFetchedAge = NextAge(@)]

Tick ==
  /\ \E i \in RouteIds : kv[i] # NoEntry
  /\ kv' = [i \in RouteIds |-> Expire(kv[i], CACHE_TTL_SECONDS)]
  /\ resp' = NoResponse
  /\ log' = NoLog
  /\ UNCHANGED <<upstream, payloads, changes, received, reqs, tasks>>

\* The route is edited at RideWithGPS.
UpstreamChange(i, route) ==
  /\ changes < MaxChanges
  /\ route # upstream[i]
  /\ upstream' = [upstream EXCEPT ![i] = route]
  /\ changes' = changes + 1
  /\ resp' = NoResponse
  /\ log' = NoLog
  /\ UNCHANGED <<kv, payloads, received, reqs, tasks>>

\* The route is edited at RideWithGPS, any number of times.
UpstreamEdit(i, route) ==
  /\ route # upstream[i]
  /\ upstream' = [upstream EXCEPT ![i] = route]
  /\ resp' = NoResponse
  /\ log' = NoLog
  /\ UNCHANGED <<kv, payloads, changes, received, reqs, tasks>>

Next ==
  \/ \E q \in Queries, p \in PurgeParams : Receive(q, p)
  \/ \E r \in BagToSet(reqs) : PurgeDelete(r)
  \/ \E r \in BagToSet(reqs) : Lookup(r)
  \/ \E r \in BagToSet(reqs) : LookupFail(r)
  \/ \E r \in BagToSet(reqs), status \in FetchStatuses : MissFetch(r, status)
  \/ \E t \in BagToSet(tasks), status \in FetchStatuses : RevalFetch(t, status)
  \/ \E t \in BagToSet(tasks) : PutLand(t)
  \/ \E t \in BagToSet(tasks) : PutFail(t)
  \/ Tick
  \/ \E i \in RouteIds, route \in payloads : UpstreamEdit(i, route)

Spec == Init /\ [][Next]_vars

\* The same worker in front of an upstream that may also serve a payload
\* without a distance member.
InitPartial == InitWith(PartialRoutes)

SpecPartial == InitPartial /\ [][Next]_vars

(***************************************************************************)
(* The worker under steady traffic.  Requests never stop, every upstream   *)
(* fetch answers 200 and every put lands.  FreshLevel stands for a level   *)
(* string that no earlier request has used (level is free text, lines      *)
(* 168-170 of index.js accept any value); no later request uses it either, *)
(* so the variant stored under it is never read again and the store's      *)
(* state leaves it out.                                                    *)
(***************************************************************************)
FreshLevel == "<fresh>"

LiveQueries ==
  {[id |-> "101", stars |-> <<"3">>, level |-> "Explorer"],
   [id |-> "101", stars |-> NullSeq, level |-> FreshLevel]}

Tracked(renderedHtml) ==
  LET keys == {k \in DOMAIN renderedHtml : k[4] # FreshLevel}
  IN [k \in keys |-> renderedHtml[k]]

ReceiveLive(q) ==
  /\ received' = received
  /\ Accept(q, NullStr)

PutLandLive(t) ==
  /\ t.type = "put"
  /\ kv' = [kv EXCEPT ![t.id] =
              setCachedRoute(t.routeData, Tracked(t.renderedHtml))]
  /\ tasks' = tasks (-) SetToBag({t})
  /\ resp' = NoResponse
  /\ log' = [step |-> "PutLand", task |-> t,
             line |-> IF t.by = "Revalidation" THEN "Data changed, cache updated"
                      ELSE ""]
  /\ UNCHANGED <<upstream, payloads, changes, received, reqs>>

LiveReceive == \E q \in LiveQueries : ReceiveLive(q)
LiveLookup == \E r \in BagToSet(reqs) : Lookup(r)
LiveMissFetch == \E r \in BagToSet(reqs) : MissFetch(r, 200)
LiveRevalFetch == \E t \in BagToSet(tasks) : RevalFetch(t, 200)
LivePutLand == \E t \in BagToSet(tasks) : PutLandLive(t)
LiveUpstreamChange == \E i \in RouteIds, route \in payloads : UpstreamChange(i, route)

NextLive ==
  \/ LiveReceive
  \/ LiveLookup
  \/ LiveMissFetch
  \/ LiveRevalFetch
  \/ LivePutLand
  \/ Tick
  \/ LiveUpstreamChange

\* Requests keep arriving and are served; waitUntil tasks run to their end;
\* time passes, so an entry that is not rewritten reaches its TTL.
Fairness ==
  /\ WF_vars(LiveReceive)
  /\ WF_vars(LiveLookup)
  /\ WF_vars(LiveMissFetch)
  /\ WF_vars(LiveRevalFetch)
  /\ WF_vars(LivePutLand)
  /\ WF_vars(Tick)

SpecLive == Init /\ [][NextLive]_vars /\ Fairness

(***************************************************************************)
(* The worker in front of clients that leave the level out or send the     *)
(* level text "none".                                                      *)
(***************************************************************************)
LevelQueries ==
  {[id |-> "101", stars |-> <<"4">>, level |-> NullStr],
   [id |-> "101", stars |-> <<"4">>, level |-> "none"],
   [id |-> "101", stars |-> NullSeq, level |-> "Explorer"]}

ReceiveLevels(q) ==
  /\ received < MaxRequests
  /\ received' = received + 1
  /\ Accept(q, NullStr)

NextLevels ==
  \/ \E q \in LevelQueries : ReceiveLevels(q)
  \/ \E r \in BagToSet(reqs) : Lookup(r)
  \/ \E r \in BagToSet(reqs), status \in FetchStatuses : MissFetch(r, status)
  \/ \E t \in BagToSet(tasks), status \in FetchStatuses : RevalFetch(t, status)
  \/ \E t \in BagToSet(tasks) : PutLand(t)
  \/ Tick
  \/ \E i \in RouteIds, route \in payloads : UpstreamEdit(i, route)

SpecLevels == Init /\ [][NextLevels]_vars

(***************************************************************************)
(* calculateTechnicalDifficulty applied to one attribute record.  The      *)
(* record is any combination of the categories calculator.js names, an     *)
(* unlisted text, a missing member (NullStr) and a name every object       *)
(* inherits; unpavedPct may be negative or missing, the distance short,    *)
(* long or missing.                                                        *)
(***************************************************************************)
Surfaces ==
  {"paved", "mostly_paved", "mixed_surfaces", "mostly_unpaved", "unknown",
   "gravel", NullStr}

Terrains == {"flat", "rolling", "climbing", "unknown", NullStr, "constructor"}

Difficulties ==
  {"casual", "easy", "moderate", "hard", "multi_day", "unknown", NullStr,
   "constructor"}

UnpavedPcts == {-1, 0, 1, 50, 100, Undefined}

Distances == {500, 50000, Undefined}

ScoreInputs ==
  {[surface |-> sf, terrain |-> tr, difficulty |-> df, unpavedPct |-> up,
    distance |-> d,
    distanceKm |-> IF d = Undefined THEN NaN ELSE d \div 100] :
     sf \in Surfaces, tr \in Terrains, df \in Difficulties,
     up \in UnpavedPcts, d \in Distances}

InitScore ==
  /\ kv = [i \in RouteIds |-> NoEntry]
  /\ payloads = WellFormedRoutes
  /\ upstream = [i \in RouteIds |-> RouteA]
  /\ changes = 0
  /\ received = 0
  /\ reqs = EmptyBag
  /\ tasks = EmptyBag
  /\ resp = NoResponse
  /\ log \in {[step |-> "input", routeData |-> rd] : rd \in ScoreInputs}

Calculate ==
  /\ log.step = "input"
  /\ log' = [step |-> "calculateTechnicalDifficulty",
             routeData |-> log.routeData,
             score |-> calculateTechnicalDifficulty(log.routeData)]
  /\ UNCHANGED <<kv, upstream, payloads, changes, received, reqs, tasks, resp>>

SpecScore == InitScore /\ [][Calculate]_vars

(***************************************************************************)
(* calculator.js (elevation-ratio model).  Terrain scores are carried in    *)
(* tenths, multipliers in hundredths, raw and adjusted scores in            *)
(* thousandths; a ratio is the pair gain / distance.                        *)
(***************************************************************************)
\* TERRAIN_BASE_SCORES[surface] || TERRAIN_BASE_SCORES['unknown']: a name
\* the object literal inherits yields a function or an object, which is
\* truthy and is not a number in the product that follows.
getTerrainBaseScore(surface) ==
  CASE surface = "paved" -> 10
    [] surface = "mostly_paved" -> 15
    [] surface = "mixed_surfaces" -> 25
    [] surface = "mostly_unpaved" -> 35
    [] surface \in InheritedMembers -> NaN
    [] OTHER -> 20

NotANumber(x) == x \in {NaN, Undefined}

getElevationRatio(elevationGain, distanceKm) ==
  IF ~NotANumber(distanceKm) /\ distanceKm <= 0
    THEN [nan |-> FALSE, num |-> 0, den |-> 1]
  ELSE IF NotANumber(distanceKm) \/ NotANumber(elevationGain)
    THEN [nan |-> TRUE, num |-> 0, den |-> 1]
  ELSE [nan |-> FALSE, num |-> elevationGain, den |-> distanceKm]

\* gainRatio < k and gainRatio >= k; both are false of NaN.
RatioBelow(gainRatio, k) == ~gainRatio.nan /\ gainRatio.num < k * gainRatio.den

RatioAtLeast(gainRatio, k) ==
  ~gainRatio.nan /\ gainRatio.num >= k * gainRatio.den

\* ELEVATION_BANDS and the loop over them; a ratio below no band (NaN)
\* reaches the return after the loop.
getElevationMultiplier(gainRatio) ==
  IF RatioBelow(gainRatio, 3) THEN [stress |-> "low", multiplier |-> 100]
  ELSE IF RatioBelow(gainRatio, 6)
    THEN [stress |-> "moderate", multiplier |-> 110]
  ELSE IF RatioBelow(gainRatio, 9) THEN [stress |-> "high", multiplier |-> 125]
  ELSE [stress |-> "severe", multiplier |-> 140]

applySanityOverrides(rawScore, surface, terrainBase, gainRatio) ==
  LET s1 == IF terrainBase # NaN /\ rawScore # NaN /\ terrainBase >= 40
               /\ rawScore < 3000
              THEN 3000 ELSE rawScore
      s2 == IF surface = "mostly_unpaved" /\ RatioAtLeast(gainRatio, 6)
               /\ s1 # NaN /\ s1 < 4000
              THEN 4000 ELSE s1
      s3 == IF surface \in {"paved", "mostly_paved"} /\ s2 # NaN /\ s2 > 2000
              THEN 2000 ELSE s2
  IN s3

\* Math.round of a value carried in units of 1 / scale, or of NaN
RoundScaled(x, scale) ==
  IF x = NaN THEN NaN ELSE (2 * x + scale) \div (2 * scale)

\* calculateTechnicalDifficulty of the elevation-ratio model
calculateTechnicalDifficultyRatio(routeData) ==
  LET surface == routeData.surface
      terrainBase == getTerrainBaseScore(surface)
      elevationRatio == getElevationRatio(routeData.elevationGain,
                                          routeData.distanceKm)
      band == getElevationMultiplier(elevationRatio)
      rawScore == IF terrainBase = NaN THEN NaN
                  ELSE terrainBase * band.multiplier
      adjustedScore == applySanityOverrides(rawScore, surface, terrainBase,
                                            elevationRatio)
      finalScore == RoundScaled(MathMin(5000, MathMax(1000, adjustedScore)),
                                1000)
  IN [score |-> finalScore,
      terrainBase |-> terrainBase,
      elevationRatio |->
        IF elevationRatio.nan THEN NaN
        ELSE RoundScaled(10 * elevationRatio.num, elevationRatio.den),
      elevationStress |-> band.stress,
      rawScore |-> RoundScaled(rawScore, 10)]

RatioSurfaces == Surfaces \cup InheritedMembers

ElevationGains == {0, 29, 30, 59, 60, 90, 5000, Undefined}

DistancesKm == {-5, 0, 1, 10, NaN}

RatioInputs ==
  {[surface |-> sf, elevationGain |-> eg, distanceKm |-> d] :
     sf \in RatioSurfaces, eg \in ElevationGains, d \in DistancesKm}

InitRatio ==
  /\ kv = [i \in RouteIds |-> NoEntry]
  /\ payloads = WellFormedRoutes
  /\ upstream = [i \in RouteIds |-> RouteA]
  /\ changes = 0
  /\ received = 0
  /\ reqs = EmptyBag
  /\ tasks = EmptyBag
  /\ resp = NoResponse
  /\ log \in {[step |-> "input", routeData |-> rd] : rd \in RatioInputs}

CalculateRatio ==
  /\ log.step = "input"
  /\ log' = [step |-> "calculateTechnicalDifficultyRatio",
             routeData |-> log.routeData,
             result |-> calculateTechnicalDifficultyRatio(log.routeData)]
  /\ UNCHANGED <<kv, upstream, payloads, changes, received, reqs, tasks, resp>>

SpecRatio == InitRatio /\ [][CalculateRatio]_vars

(***************************************************************************)
(* The stars query strings: absent, empty, non-numeric, fractional, zero,  *)
(* negative, above 5, in range, digits followed by text.                   *)
(***************************************************************************)
StarsTexts ==
  {NullSeq, << >>, <<"a", "b", "c">>, <<"3", ".", "7">>, <<"0">>,
   <<"-", "2">>, <<"9">>, <<"4">>, <<"5", "x">>}

StarsQueries ==
  {[id |-> "101", stars |-> st, level |-> NullStr] : st \in StarsTexts}

ReceiveStars(q) ==
  /\ received < MaxRequests
  /\ received' = received + 1
  /\ Accept(q, NullStr)

NextStars ==
  \/ \E q \in StarsQueries : ReceiveStars(q)
  \/ \E r \in BagToSet(reqs) : Lookup(r)
  \/ \E r \in BagToSet(reqs), status \in FetchStatuses : MissFetch(r, status)
  \/ \E t \in BagToSet(tasks) : PutLand(t)

SpecStars == Init /\ [][NextStars]_vars

(***************************************************************************)
(* route-stats.js in the browser: the lazy loader of Mapbox GL JS.  The    *)
(* page state is carried in log: the flags mapboxLoaded and mapboxLoading, *)
(* whether the global mapboxgl is defined, the container whose promise the *)
(* appended script's onload / onerror close over (0 when no script is in   *)
(* flight), and per map container the promise loadMapboxJS returned to it  *)
(* and how far loadMapboxAndInitialize has come.  Each container calls     *)
(* loadMapboxAndInitialize once (it is unobserved before the call).        *)
(***************************************************************************)
MaxContainers == 3

Containers == 1..MaxContainers

NoPromise == [kind |-> "none", state |-> "none"]

InitMapbox ==
  /\ kv = [i \in RouteIds |-> NoEntry]
  /\ payloads = WellFormedRoutes
  /\ upstream = [i \in RouteIds |-> RouteA]
  /\ changes = 0
  /\ received = 0
  /\ reqs = EmptyBag
  /\ tasks = EmptyBag
  /\ resp = NoResponse
  /\ log \in {[step |-> "page", mapboxgl |-> g, mapboxLoaded |-> FALSE,
                mapboxLoading |-> FALSE, script |-> 0,
                promises |-> [c \in Containers |-> NoPromise],
                containers |-> [c \in Containers |-> "observed"]] :
                 g \in BOOLEAN}

PageUnchanged ==
  UNCHANGED <<kv, upstream, payloads, changes, received, reqs, tasks, resp>>

\* loadMapboxAndInitialize(container) up to its await: the call of
\* loadMapboxJS and the promise it returns.
loadMapboxJS(c) ==
  /\ log.containers[c] = "observed"
  /\ IF log.mapboxLoaded \/ log.mapboxgl
       THEN log' = [log EXCEPT !.step = "loadMapboxJS",
                               !.mapboxLoaded = TRUE,
                               !.promises[c] = [kind |-> "resolved",
                                                state |-> "resolved"],
                               !.containers[c] = "awaiting"]
     ELSE IF log.mapboxLoading
       THEN log' = [log EXCEPT !.step = "loadMapboxJS",
                               !.promises[c] = [kind |-> "check",
                                                state |-> "pending"],
                               !.containers[c] = "awaiting"]
     ELSE log' = [log EXCEPT !.step = "loadMapboxJS",
                             !.mapboxLoading = TRUE,
                             !.script = c,
                             !.promises[c] = [kind |-> "script",
                                              state |-> "pending"],
                             !.containers[c] = "awaiting"]
  /\ PageUnchanged

\* script.onload: the library has run, mapboxgl is defined.
ScriptOnload ==
  /\ log.script # 0
  /\ log' = [log EXCEPT !.step = "onload",
                         !.mapboxgl = TRUE,
                         !.mapboxLoaded = TRUE,
                         !.mapboxLoading = FALSE,
                         !.promises[log.script].state = "resolved",
                         !.script = 0]
  /\ PageUnchanged

\* script.onerror: only the promise of the call that appended the script
\* is rejected.
ScriptOnerror ==
  /\ log.script # 0
  /\ log' = [log EXCEPT !.step = "onerror",
                         !.mapboxLoading = FALSE,
                         !.promises[log.script].state = "rejected",
                         !.script = 0]
  /\ PageUnchanged

\* One tick of the 50 ms interval of a caller that arrived during a load.
IntervalCheck(c) ==
  /\ log.promises[c] = [kind |-> "check", state |-> "pending"]
  /\ IF log.mapboxLoaded
       THEN log' = [log EXCEPT !.step = "check",
                               !.promises[c].state = "resolved"]
     ELSE UNCHANGED log
  /\ PageUnchanged

\* loadMapboxAndInitialize(container) after its await: the map is
\* initialized, or the rejection is caught and logged.
AfterAwait(c) ==
  /\ log.containers[c] = "awaiting"
  /\ log.promises[c].state \in {"resolved", "rejected"}
  /\ log' = [log EXCEPT !.step = "loadMapboxAndInitialize",
                         !.containers[c] =
                           IF log.promises[c].state = "resolved"
                             THEN "initialized" ELSE "failed"]
  /\ PageUnchanged

NextMapbox ==
  \/ \E c \in Containers : loadMapboxJS(c)
  \/ ScriptOnload
  \/ ScriptOnerror
  \/ \E c \in Containers : IntervalCheck(c)
  \/ \E c \in Containers : AfterAwait(c)

\* The browser ends every script load with one of the two events, the
\* interval keeps ticking, and a settled promise runs its continuation.
FairnessMapbox ==
  /\ WF_vars(ScriptOnload \/ ScriptOnerror)
  /\ \A c \in Containers : WF_vars(IntervalCheck(c))
  /\ \A c \in Containers : WF_vars(AfterAwait(c))

SpecMapbox == InitMapbox /\ [][NextMapbox]_vars /\ FairnessMapbox

(***************************************************************************)
(* The route is edited upstream once, from RouteA to RouteB, so that the   *)
(* attributes of a write tell whether its fetch came before or after the   *)
(* edit.                                                                   *)
(***************************************************************************)
InitOrder == Init /\ upstream = [i \in RouteIds |-> RouteA]

UpstreamAdvance(i) == upstream[i] = RouteA /\ UpstreamEdit(i, RouteB)

NextOrder ==
  \/ \E q \in Queries, p \in PurgeParams : Receive(q, p)
  \/ \E r \in BagToSet(reqs) : PurgeDelete(r)
  \/ \E r \in BagToSet(reqs) : Lookup(r)
  \/ \E r \in BagToSet(reqs) : LookupFail(r)
  \/ \E r \in BagToSet(reqs), status \in FetchStatuses : MissFetch(r, status)
  \/ \E t \in BagToSet(tasks), status \in FetchStatuses : RevalFetch(t, status)
  \/ \E t \in BagToSet(tasks) : PutLand(t)
  \/ \E t \in BagToSet(tasks) : PutFail(t)
  \/ Tick
  \/ \E i \in RouteIds : UpstreamAdvance(i)

SpecOrder == InitOrder /\ [][NextOrder]_vars

(***************************************************************************)
(* fetchRouteData on its own: one call per upstream answer.                *)
(***************************************************************************)
UpstreamStatuses ==
  {200, 201, 299, 300, 304, 400, 401, 403, 404, 429, 500, 503}

FetchInputs ==
  {[routeId |-> i, status |-> st, route |-> rt] :
     i \in {"101", "202"}, st \in UpstreamStatuses,
     rt \in {RouteA, RouteB, RouteC}}

InitFetch ==
  /\ kv = [i \in RouteIds |-> NoEntry]
  /\ payloads = WellFormedRoutes
  /\ upstream = [i \in RouteIds |-> RouteA]
  /\ changes = 0
  /\ received = 0
  /\ reqs = EmptyBag
  /\ tasks = EmptyBag
  /\ resp = NoResponse
  /\ log \in {[step |-> "input", call |-> c] : c \in FetchInputs}

Fetch ==
  /\ log.step = "input"
  /\ log' = [step |-> "fetchRouteData", call |-> log.call,
             result |-> fetchRouteData(log.call.routeId, log.call.status,
                                       log.call.route)]
  /\ UNCHANGED <<kv, upstream, payloads, changes, received, reqs, tasks, resp>>

SpecFetch == InitFetch /\ [][Fetch]_vars

(***************************************************************************)
(* handleRequest in front of both endpoints, and GET /club-routes with the *)
(* paginated upstream listing.  GET /route-stats is the subject of Spec    *)
(* and is left out here.                                                   *)
(***************************************************************************)
CLUB_ROUTES_TTL_SECONDS == 3600

PAGE_SIZE == 200

\* pages of the upstream listing in front of its closing page
MaxPages == 1

\* getCachedClubRoutes / setCachedClubRoutes: club-routes:${clubId} with the
\* static clubId org-routes.
ClubKey == "club-routes:org-routes"

CORS_HEADERS ==
  [allowOrigin |-> "*", allowMethods |-> "GET, OPTIONS",
   allowHeaders |-> "Content-Type", maxAge |-> "86400"]

Methods == {"GET", "OPTIONS", "POST"}

Paths == {"/club-routes", "/route-stats", "/other"}

\* The requests that arrive.  The query string matters on /route-stats
\* only: there it asks for a purge and lacks the id.
Arrivals ==
  {[method |-> m, path |-> path,
    query |-> [id |-> NullStr, stars |-> <<"3">>, level |-> NullStr],
    purge |-> IF path = "/route-stats" THEN "true" ELSE NullStr] :
     m \in Methods, path \in Paths}

\* One route of the upstream listing, its name standing as a number of its
\* own; only id and name are kept.
UpstreamRoute(n) == [id |-> n, name |-> 0 - n, user_id |-> 7]

\* The pages upstream may serve, each described by the number of routes it
\* carries and by its meta: a full page with no pagination, with pagination
\* that names no next page, or with a next_page_url; and, with a
\* next_page_url, a short page or a body without a routes member.
PageKinds ==
  {[hasRoutes |-> TRUE, count |-> PAGE_SIZE, pagination |-> pg] :
     pg \in {"missing", "last", "next"}}
  \cup {[hasRoutes |-> TRUE, count |-> 1, pagination |-> "next"],
        [hasRoutes |-> FALSE, count |-> 0, pagination |-> "next"]}

\* The listings upstream may hold: full pages that name a next page, then
\* one page of any kind (what follows the page that ends the loop is never
\* requested).
ClubListings ==
  UNION {{s \in [1..n -> PageKinds] :
            \A k \in 1..(n - 1) :
              s[k].count = PAGE_SIZE /\ s[k].pagination = "next"} :
         n \in 0..MaxPages}

\* The body of page n of the listing; past the listed pages upstream
\* serves a closing page of one route that names no next page.
ServedPage(pages, n) ==
  IF n <= Len(pages)
    THEN [hasRoutes |-> pages[n].hasRoutes,
          routes |-> [i \in 1..pages[n].count |-> UpstreamRoute(n * 1000 + i)],
          pagination |-> pages[n].pagination]
  ELSE [hasRoutes |-> TRUE, routes |-> <<UpstreamRoute(n * 1000 + 1)>>,
        pagination |-> "last"]

ClubEntry(routes) == [routes |-> routes, lastFetchedAge |-> 0]

ClubPutTask(routes) == [type |-> "clubput", routes |-> routes]

InitClub ==
  /\ kv = [i \in RouteIds \cup {ClubKey} |->
             IF i = ClubKey THEN NoEntry
             ELSE setCachedRoute(normalizeRouteData(RouteA),
                                 getHtmlCacheKey(4, NullStr) :>
                                   renderRouteStatsCard(
                                     normalizeRouteData(RouteA), 4, NullStr))]
  /\ payloads = WellFormedRoutes
  /\ \E listing \in ClubListings :
       upstream = [i \in RouteIds \cup {ClubKey} |->
                     IF i = ClubKey THEN listing ELSE RouteA]
  /\ changes = 0
  /\ received = 0
  /\ reqs = EmptyBag
  /\ tasks = EmptyBag
  /\ resp = NoResponse
  /\ log = NoLog

ClubStatuses == {200, 401, 500}

\* handleOptions: new Response(null, {status: 204, headers: CORS_HEADERS})
handleOptions(req) ==
  Response(204, NullStr, Null, NoHash, "Options", req, NoEntry, EmptyBag)
    @@ [headers |-> CORS_HEADERS]

\* errorResponse(message, status) outside the parameter validation
jsonError(message, status, path, req) ==
  Response(status, "application/json", [error |-> message], NoHash, path, req,
           NoEntry, EmptyBag)

\* Variant of MethodNotAllowed: POST is let through like GET.
MethodNotAllowedButPost(method) == method \notin {"GET", "POST"}

\* if (request.method !== 'GET') in handleClubRoutes and handleRouteStats
MethodNotAllowed(method) == method # "GET"

\* handleRequest, with the first lines of the handler it dispatches to.  A
\* GET on /club-routes starts the club flow below.
handleRequest(method, path, q, purgeParam) ==
  LET req == [method |-> method, path |-> path, query |-> q,
              purge |-> purgeParam]
      club == [method |-> method, path |-> path,
               pc |-> "lookup", page |-> 1, allRoutes |-> << >>,
               fetches |-> 0]
  IN /\ log' = [step |-> "handleRequest", req |-> req]
     /\ UNCHANGED <<kv, upstream, payloads, changes, received, tasks>>
     /\ IF method = "OPTIONS"
          THEN /\ resp' = handleOptions(req)
               /\ UNCHANGED reqs
        ELSE IF path = "/club-routes"
          THEN IF MethodNotAllowed(method)
                 THEN /\ resp' = jsonError("Method not allowed", 405,
                                           "Method", req)
                      /\ UNCHANGED reqs
               ELSE /\ BagCardinality(reqs) < MaxInflight
                    /\ reqs' = reqs (+) SetToBag({club})
                    /\ resp' = NoResponse
        ELSE IF path = "/route-stats"
          THEN /\ MethodNotAllowed(method)
               /\ resp' = jsonError("Method not allowed", 405, "Method", req)
               /\ UNCHANGED reqs
        ELSE /\ resp' = jsonError("Not found", 404, "NotFound", req)
             /\ UNCHANGED reqs

\* What the response remembers of the request it answers.
ClubDone(r) ==
  [method |-> r.method, path |-> r.path, page |-> r.page,
   fetches |-> r.fetches]

\* let routes = await getCachedClubRoutes(env.ROUTE_CACHE, cacheKey): any
\* stored list, the empty one included, is served without a fetch.
ClubLookup(r) ==
  LET cached == kv[ClubKey]
  IN /\ r.pc = "lookup"
     /\ log' = [step |-> "ClubLookup"]
     /\ UNCHANGED <<kv, upstream, payloads, changes, received, tasks>>
     /\ IF cached # NoEntry
          THEN /\ resp' = Response(200, "application/json",
                                   [routes |-> cached.routes], NoHash,
                                   "ClubHit", ClubDone(r), cached, EmptyBag)
               /\ reqs' = reqs (-) SetToBag({r})
        ELSE /\ resp' = NoResponse
             /\ reqs' = Replace(reqs, r, [r EXCEPT !.pc = "fetch"])

\* The read of the store throws: the catch block answers 500.
ClubLookupFail(r) ==
  /\ r.pc = "lookup"
  /\ log' = [step |-> "ClubLookupFail"]
  /\ resp' = jsonError("KV GET failed", 500, "ClubError", ClubDone(r))
  /\ reqs' = reqs (-) SetToBag({r})
  /\ UNCHANGED <<kv, upstream, payloads, changes, received, tasks>>

\* Variant of ClubStop: the length of the page is not looked at.
ClubStopNoLength(data, routes) ==
  data.pagination = "missing" \/ data.pagination = "last"

\* if (!pagination || !pagination.next_page_url || routes.length < pageSize)
ClubStop(data, routes) ==
  \/ data.pagination = "missing"
  \/ data.pagination = "last"
  \/ Len(routes) < PAGE_SIZE

\* for (const route of routes) allRoutes.push({id: route.id, name: route.name})
ClubPairs(allRoutes, routes) ==
  allRoutes
    \o [i \in 1..Len(routes) |-> [id |-> routes[i].id, name |-> routes[i].name]]

\* Variant of ClubFetchFailed: what was collected so far is served.
ClubFetchFailedPartial(r, message) ==
  /\ resp' = Response(200, "application/json", [routes |-> r.allRoutes],
                      NoHash, "ClubMiss", ClubDone(r), NoEntry, EmptyBag)
  /\ reqs' = reqs (-) SetToBag({r})
  /\ UNCHANGED tasks

\* fetchClubRoutes throws; the catch block of handleClubRoutes answers 500.
ClubFetchFailed(r, message) ==
  /\ resp' = jsonError(message, 500, "ClubError", ClubDone(r))
  /\ reqs' = reqs (-) SetToBag({r})
  /\ UNCHANGED tasks

\* One turn of the while (true) loop of fetchClubRoutes, and when the loop
\* ends the rest of handleClubRoutes: ctx.waitUntil(setCachedClubRoutes(..))
\* and the 200 response.
ClubFetchPage(r, status) ==
  LET data == ServedPage(upstream[ClubKey], r.page)
      routes == IF data.hasRoutes THEN data.routes ELSE << >>
      all == ClubPairs(r.allRoutes, routes)
      got == [r EXCEPT !.allRoutes = all, !.fetches = @ + 1]
      put == SetToBag({ClubPutTask(all)})
  IN /\ r.pc = "fetch"
     /\ log' = [step |-> "ClubFetchPage", page |-> r.page, status |-> status]
     /\ UNCHANGED <<kv, upstream, payloads, changes, received>>
     /\ IF status # 200
          THEN ClubFetchFailed(r, IF status = 401
                                    THEN <<"RWGPS authentication failed">>
                                    ELSE <<"RWGPS API error: ", status>>)
        ELSE IF ClubStop(data, routes)
          THEN /\ Room(1)
               /\ resp' = Response(200, "application/json", [routes |-> all],
                                   NoHash, "ClubMiss", ClubDone(got), NoEntry,
                                   put)
               /\ reqs' = reqs (-) SetToBag({r})
               /\ tasks' = tasks (+) put
        ELSE /\ resp' = NoResponse
             /\ reqs' = Replace(reqs, r, [got EXCEPT !.page = @ + 1])
             /\ UNCHANGED tasks

\* The write of the club index lands.
ClubPutLand(t) ==
  /\ t.type = "clubput"
  /\ kv' = [kv EXCEPT ![ClubKey] = ClubEntry(t.routes)]
  /\ tasks' = tasks (-) SetToBag({t})
  /\ resp' = NoResponse
  /\ log' = [step |-> "ClubPutLand"]
  /\ UNCHANGED <<upstream, payloads, changes, received, reqs>>

\* The write of the club index fails; nobody awaits it.
ClubPutFail(t) ==
  /\ t.type = "clubput"
  /\ tasks' = tasks (-) SetToBag({t})
  /\ resp' = NoResponse
  /\ log' = [step |-> "ClubPutFail"]
  /\ UNCHANGED <<kv, upstream, payloads, changes, received, reqs>>

\* Variant of expirationTtl: the two lifetimes are exchanged.
expirationTtlSwapped(key) ==
  IF key = ClubKey THEN CACHE_TTL_SECONDS ELSE CLUB_ROUTES_TTL_SECONDS

\* The expirationTtl option of the two put calls.
expirationTtl(key) ==
  IF key = ClubKey THEN CLUB_ROUTES_TTL_SECONDS ELSE CACHE_TTL_SECONDS

\* Time passes for the route entry and the club index alike.
ClubTick ==
  /\ \E i \in DOMAIN kv : kv[i] # NoEntry
  /\ kv' = [i \in DOMAIN kv |-> Expire(kv[i], expirationTtl(i))]
  /\ resp' = NoResponse
  /\ log' = [step |-> "ClubTick"]
  /\ UNCHANGED <<upstream, payloads, changes, received, reqs, tasks>>

NextClub ==
  \/ \E a \in Arrivals : handleRequest(a.method, a.path, a.query, a.purge)
  \/ \E r \in BagToSet(reqs) : ClubLookup(r)
  \/ \E r \in BagToSet(reqs) : ClubLookupFail(r)
  \/ \E r \in BagToSet(reqs), status \in ClubStatuses : ClubFetchPage(r, status)
  \/ \E t \in BagToSet(tasks) : ClubPutLand(t)
  \/ \E t \in BagToSet(tasks) : ClubPutFail(t)
  \/ ClubTick

SpecClub == InitClub /\ [][NextClub]_vars

\* index.js lines 216-220: the variant update of the AttributesHit path,
\* updateCachedHtml followed by setCachedRoute, as the entry it stores.
putVariant(cached, stars, level, html) ==
  setCachedRoute(cached.routeData,
                 updateCachedHtml(cached, stars, level, html).renderedHtml)

\* The (stars, level) pairs of the valid requests.
VariantPairs ==
  LET starsOf(q) == IF q.stars \in {NullSeq, << >>} THEN Null
                    ELSE parseInt(q.stars)
      levelOf(q) == IF q.level = "" THEN NullStr ELSE q.level
      valid(q) == /\ q.id \in RouteIds
                  /\ \/ starsOf(q) \in {Null, NaN}
                     \/ starsOf(q) >= 1 /\ starsOf(q) <= 5
  IN {<<starsOf(q), levelOf(q)>> : q \in {x \in Queries : valid(x)}}

(***************************************************************************)
(* Properties                                                              *)
(***************************************************************************)
KeyOf(req) == getHtmlCacheKey(req.stars, req.level)

\* The step just taken answered a request that passed validation.
Answered == resp.status # 0 /\ resp.path # "Validation"

\* C1: every stored entry's dataHash is generateDataHash of the routeData
\* stored in the same entry, whatever writes and purges came before.
C1_HashMatchesStoredAttributes ==
  \A i \in RouteIds :
    kv[i] # NoEntry => kv[i].dataHash = generateDataHash(kv[i].routeData)

\* A revalidation that saw a different hash has just written the entry.
C1_Witness ==
  /\ log.step = "PutLand"
  /\ log.task.by = "Revalidation"
  /\ kv[log.task.id] # NoEntry
  /\ kv[log.task.id].dataHash # generateDataHash(normalizeRouteData(RouteA))

\* C2: a request whose variant is stored in an entry older than the
\* staleness threshold is answered with exactly the stored HTML, without an
\* upstream fetch, and hands one revalidation to ctx.waitUntil, which has not
\* run when the response is returned.
C2_StaleVariantHit ==
  (/\ Answered
   /\ resp.cached # NoEntry
   /\ KeyOf(resp.req) \in DOMAIN resp.cached.renderedHtml
   /\ resp.cached.lastFetchedAge > STALE_THRESHOLD_SECONDS)
  => LET reval == RevalTask(resp.req.id, resp.req.stars, resp.req.level,
                            resp.cached)
     IN /\ resp.status = 200
        /\ resp.body = resp.cached.renderedHtml[KeyOf(resp.req)]
        /\ resp.req.fetches = 0
        /\ resp.spawned = SetToBag({reval})
        /\ BagIn(reval, tasks)

C2_Witness ==
  /\ Answered
  /\ resp.path = "VariantHit"
  /\ resp.cached.lastFetchedAge > STALE_THRESHOLD_SECONDS

\* C3: a non-purge request that read no entry makes exactly one upstream
\* fetch; the write it hands over holds the one variant just rendered, and
\* when that write lands the entry holds exactly that variant, under the key
\* of the request's (stars, level).
C3_MissOneFetchOneVariant ==
  /\ (Answered /\ resp.req.pc = "done" /\ ~resp.req.purge)
       => resp.req.fetches = 1
  /\ (Answered /\ resp.path = "Miss")
       => resp.spawned =
            SetToBag({PutTask("Miss", resp.req.id, resp.req.stars,
                              resp.req.level,
                              normalizeRouteData(upstream[resp.req.id]),
                              KeyOf(resp.req) :> resp.body)})
  /\ (log.step = "PutLand" /\ log.task.by = "Miss")
       => /\ kv[log.task.id] # NoEntry
          /\ DOMAIN kv[log.task.id].renderedHtml =
               {getHtmlCacheKey(log.task.stars, log.task.level)}

C3_Witness ==
  /\ log.step = "PutLand"
  /\ log.task.by = "Miss"
  /\ log.task.level = "Explorer"
  /\ Cardinality(DOMAIN kv[log.task.id].renderedHtml) = 1

\* C4: a request that reads a non-stale entry without its variant makes no
\* upstream fetch, starts no revalidation, answers with the rendering of the
\* cached attributes, and hands over one write that holds this rendering
\* under the request's key and every variant the entry held, unchanged; when
\* that write lands the entry holds exactly that map.
C4_AttributesHitAddsVariant ==
  /\ (/\ Answered
      /\ resp.cached # NoEntry
      /\ KeyOf(resp.req) \notin DOMAIN resp.cached.renderedHtml
      /\ resp.cached.lastFetchedAge <= STALE_THRESHOLD_SECONDS)
     => /\ resp.path = "AttributesHit"
        /\ resp.req.fetches = 0
        /\ resp.body = renderRouteStatsCard(resp.cached.routeData,
                                            resp.req.stars, resp.req.level)
        /\ BagCardinality(resp.spawned) = 1
        /\ \A p \in BagToSet(resp.spawned) :
             /\ p.type = "put"
             /\ p.id = resp.req.id
             /\ p.routeData = resp.cached.routeData
             /\ DOMAIN p.renderedHtml =
                  DOMAIN resp.cached.renderedHtml \cup {KeyOf(resp.req)}
             /\ p.renderedHtml[KeyOf(resp.req)] = resp.body
             /\ \A k \in DOMAIN resp.cached.renderedHtml :
                  p.renderedHtml[k] = resp.cached.renderedHtml[k]
  /\ (log.step = "PutLand" /\ log.task.by = "AttributesHit")
       => /\ kv[log.task.id] # NoEntry
          /\ kv[log.task.id].renderedHtml = log.task.renderedHtml

C4_Witness ==
  /\ log.step = "PutLand"
  /\ log.task.by = "AttributesHit"
  /\ Cardinality(DOMAIN kv[log.task.id].renderedHtml) = 2

\* C5: a request with purge=true has had the entry deleted by the time it
\* waits for upstream, and is answered after exactly one upstream fetch on
\* the request path (never from the cache), whatever entry the delete found.
C5_PurgeAlwaysFetches ==
  /\ \A r \in BagToSet(reqs) :
       r.purge => /\ r.pc \in {"purge", "fetch"}
                  /\ r.pc = "fetch" => r.deleted.deleted
  /\ (Answered /\ resp.req.purge)
       => /\ resp.req.deleted.deleted
          /\ resp.req.fetches = 1
          /\ resp.path \in {"Miss", "Error"}
          /\ resp.req.pc = "done"

\* The purge removed an entry that was not stale and held the requested
\* variant.
C5_Witness ==
  /\ Answered
  /\ resp.req.purge
  /\ resp.path = "Miss"
  /\ resp.req.deleted.deleted
  /\ resp.req.deleted.entry # NoEntry
  /\ resp.req.deleted.entry.lastFetchedAge <= STALE_THRESHOLD_SECONDS
  /\ KeyOf(resp.req) \in DOMAIN resp.req.deleted.entry.renderedHtml

\* C6: a revalidation carries the (stars, level) of the request that
\* started it; when its fetch returns attributes whose hash differs from the
\* snapshot's, it issues a write of the fresh attributes with the rendering
\* of the fresh attributes for those inputs, and when that write lands the
\* entry holds the fresh attributes, their hash, and that rendering under
\* the variant key.
C6_RevalidationWritesFresh ==
  /\ resp.status # 0
       => \A t \in BagToSet(resp.spawned) :
            t.type = "reval"
              => t.stars = resp.req.stars /\ t.level = resp.req.level
  /\ (/\ log.step = "RevalFetch"
      /\ log.ok
      /\ generateDataHash(log.freshRouteData) # log.task.cached.dataHash)
     => /\ log.freshRouteData = normalizeRouteData(upstream[log.task.id])
        /\ \E p \in BagToSet(tasks) :
             /\ p.type = "put"
             /\ p.by = "Revalidation"
             /\ p.id = log.task.id
             /\ p.stars = log.task.stars
             /\ p.level = log.task.level
             /\ p.routeData = log.freshRouteData
             /\ p.renderedHtml[getHtmlCacheKey(p.stars, p.level)] =
                  renderRouteStatsCard(log.freshRouteData, p.stars, p.level)
  /\ (log.step = "PutLand" /\ log.task.by = "Revalidation")
     => LET e == kv[log.task.id]
            t == log.task
        IN /\ e # NoEntry
           /\ e.routeData = JsonRoundTrip(t.routeData)
           /\ e.dataHash = generateDataHash(t.routeData)
           /\ e.renderedHtml[getHtmlCacheKey(t.stars, t.level)] =
                renderRouteStatsCard(t.routeData, t.stars, t.level)

C6_Witness ==
  /\ log.step = "PutLand"
  /\ log.task.by = "Revalidation"
  /\ kv[log.task.id].routeData =
       JsonRoundTrip(normalizeRouteData(upstream[log.task.id]))

\* C7: a revalidation whose fetch returns attributes with the snapshot's
\* hash ends without any write: in that step the store is unchanged
\* (attributes, hash, variants, lastFetched) and the task is gone without
\* having issued a put.
C7_UnchangedHashNoWrite ==
  [][(/\ log'.step = "RevalFetch"
      /\ log'.ok
      /\ generateDataHash(log'.freshRouteData) = log'.task.cached.dataHash)
     => (kv' = kv /\ tasks' = tasks (-) SetToBag({log'.task}))]_vars

C7_Witness ==
  /\ log.step = "RevalFetch"
  /\ log.ok
  /\ log.line = "Data unchanged, skipping update"
  /\ kv[log.task.id] # NoEntry

\* C8 (as claimed): the stored hash differs from the hash of the attributes
\* upstream holds exactly when they differ in distance or elevationGain.
C8_HashDetectsChange ==
  \A i \in RouteIds :
    kv[i] # NoEntry
      => LET fresh == normalizeRouteData(upstream[i])
         IN hasDataChanged(kv[i], fresh)
              <=> (\/ kv[i].routeData.distance # fresh.distance
                   \/ kv[i].routeData.elevationGain # fresh.elevationGain)

\* C9 (as claimed): once upstream has stopped changing, then under steady
\* traffic and fair scheduling there comes a point after which the stored
\* attributes of every entry are the upstream attributes and every response
\* shows the upstream distance and elevation gain.
C9_EventuallyConsistent ==
  <>[](/\ \A i \in RouteIds :
            kv[i] # NoEntry
              => kv[i].routeData = JsonRoundTrip(normalizeRouteData(upstream[i]))
       /\ (resp.status = 200 /\ resp.path \in {"VariantHit", "AttributesHit", "Miss"})
            => resp.body = renderRouteStatsCard(
                             normalizeRouteData(upstream[resp.req.id]),
                             resp.req.stars, resp.req.level))

\* C10: a revalidation that fails (upstream answers with an error status, or
\* its put is rejected) ends in a step that changes no entry, touches no
\* request, returns no response and leaves nothing behind but the log line.
C10_RevalidationFailureSwallowed ==
  [][(\/ log'.step = "RevalFetch" /\ ~log'.ok
      \/ log'.step = "PutFail" /\ log'.task.by = "Revalidation")
     => /\ kv' = kv
        /\ reqs' = reqs
        /\ resp' = NoResponse
        /\ tasks' = tasks (-) SetToBag({log'.task})
        /\ log'.line = "Background revalidation failed"]_vars

\* A revalidation has just failed and the stale entry is still stored.
C10_Witness ==
  /\ log.step \in {"RevalFetch", "PutFail"}
  /\ log.line = "Background revalidation failed"
  /\ kv[log.task.id] # NoEntry
  /\ kv[log.task.id].lastFetchedAge > STALE_THRESHOLD_SECONDS

\* C11: when the upstream fetch of the Miss path fails (404, 401 or any other
\* error status), the response is status 200, text/html, the error card with
\* the error's message and no hash header, and the step neither writes the
\* store nor hands a write to waitUntil.
C11_MissFailureErrorCard ==
  [][(/\ resp'.status # 0
      /\ resp'.path = "Error"
      /\ resp'.req.pc = "done")
     => /\ resp'.status = 200
        /\ resp'.contentType = "text/html"
        /\ resp'.body.card = "error"
        /\ resp'.dataHash = NoHash
        /\ resp'.spawned = EmptyBag
        /\ resp'.req.fetches = 1
        /\ kv' = kv
        /\ tasks' = tasks]_vars

\* A miss whose fetch was answered 404 has returned the error card while
\* the route has no entry.
C11_Witness ==
  /\ resp.status = 200
  /\ resp.path = "Error"
  /\ resp.req.pc = "done"
  /\ ~resp.req.purge
  /\ resp.body = renderErrorCard(<<"Route", resp.req.id, "not found">>)
  /\ kv[resp.req.id] = NoEntry

\* C12: a request without an id, or with a stars value outside 1..5, is
\* answered 400 with a JSON error in the step that receives it; that step
\* leaves the store, the pending writes and the requests in flight as they
\* were (also with purge=true), and no such request is ever among the
\* requests that go on to the delete, the cache read or the upstream fetch.
C12_InvalidRequestRejected ==
  [][/\ \A r \in BagToSet(reqs') :
          /\ r.id \notin {NullStr, ""}
          /\ r.stars \in {Null, NaN} \/ (r.stars >= 1 /\ r.stars <= 5)
     /\ (resp'.status # 0 /\ resp'.path = "Validation")
          => /\ resp'.status = 400
             /\ resp'.contentType = "application/json"
             /\ \/ resp'.req.id \in {NullStr, ""}
                \/ resp'.req.stars < 1 /\ resp'.req.stars \notin {Null, NaN}
                \/ resp'.req.stars > 5
             /\ kv' = kv
             /\ tasks' = tasks
             /\ reqs' = reqs
             /\ upstream' = upstream
     /\ (resp'.status # 0 /\ resp'.path # "Validation")
          => /\ resp'.req.id \notin {NullStr, ""}
             /\ resp'.req.stars \in {Null, NaN}
                  \/ (resp'.req.stars >= 1 /\ resp'.req.stars <= 5)]_vars

\* stars=0 with purge=true has been refused while the route's entry is
\* still stored.
C12_Witness ==
  /\ resp.status = 400
  /\ resp.req.id = "101"
  /\ resp.req.stars = 0
  /\ resp.req.purge
  /\ kv["101"] # NoEntry

\* C13 (as claimed): a request whose cache read fails goes on to the
\* upstream fetch exactly as after a null read: the failing step returns no
\* response and leaves the request waiting for upstream.
C13_ReadFailureIsMiss ==
  [][log'.step = "LookupFail"
     => /\ resp' = NoResponse
        /\ [log'.req EXCEPT !.pc = "fetch"] \in BagToSet(reqs')]_vars

\* C14: a Miss or AttributesHit response is 200, text/html, the rendered
\* card and a hash header, and it is returned while its write is still
\* pending; when that write later fails, the failing step returns nothing
\* to any client, touches no request and no entry, and logs nothing.
C14_WriteFailureKeepsResponse ==
  [][/\ (resp'.status # 0 /\ resp'.path \in {"Miss", "AttributesHit"})
          => /\ resp'.status = 200
             /\ resp'.contentType = "text/html"
             /\ resp'.body = renderRouteStatsCard(
                                IF resp'.path = "Miss"
                                THEN normalizeRouteData(upstream[resp'.req.id])
                                ELSE resp'.cached.routeData,
                                resp'.req.stars, resp'.req.level)
             /\ resp'.dataHash # NoHash
             /\ \E t \in BagToSet(resp'.spawned) :
                  /\ t.type = "put"
                  /\ t \in BagToSet(tasks')
     /\ (log'.step = "PutFail" /\ log'.task.by \in {"Miss", "AttributesHit"})
          => /\ resp' = NoResponse
             /\ reqs' = reqs
             /\ kv' = kv
             /\ tasks' = tasks (-) SetToBag({log'.task})
             /\ log'.line = ""]_vars

\* The write of an AttributesHit has just failed; the entry still lacks
\* the variant the request was answered with.
C14_Witness ==
  /\ log.step = "PutFail"
  /\ log.task.by = "AttributesHit"
  /\ kv[log.task.id] # NoEntry
  /\ getCachedHtml(kv[log.task.id], log.task.stars, log.task.level) = NoHtml

\* C15: for every stored entry, every (stars, level) pair and every HTML,
\* applying the variant update twice gives the variant map of applying it
\* once, the key then maps to that HTML, and every variant the entry had
\* under another key is still there unchanged after either application;
\* and a pending AttributesHit write whose map is already stored stores the
\* same map again when it lands.
C15_PutVariantIdempotent ==
  /\ \A i \in RouteIds, sl \in VariantPairs, p \in payloads :
       kv[i] # NoEntry
         => LET key == getHtmlCacheKey(sl[1], sl[2])
                html == renderRouteStatsCard(normalizeRouteData(p), sl[1], sl[2])
                e1 == putVariant(kv[i], sl[1], sl[2], html)
                e2 == putVariant(e1, sl[1], sl[2], html)
            IN /\ e2.renderedHtml = e1.renderedHtml
               /\ key \in DOMAIN e1.renderedHtml
               /\ e1.renderedHtml[key] = html
               /\ \A k \in DOMAIN kv[i].renderedHtml :
                    /\ k \in DOMAIN e1.renderedHtml
                    /\ k \in DOMAIN e2.renderedHtml
                    /\ k # key => /\ e1.renderedHtml[k] = kv[i].renderedHtml[k]
                                  /\ e2.renderedHtml[k] = kv[i].renderedHtml[k]
  /\ \A t \in BagToSet(tasks) :
       (/\ t.type = "put"
        /\ t.by = "AttributesHit"
        /\ kv[t.id] # NoEntry
        /\ kv[t.id].renderedHtml = t.renderedHtml)
       => setCachedRoute(t.routeData, t.renderedHtml).renderedHtml
            = kv[t.id].renderedHtml

\* The same variant update was issued twice; the first has landed, the
\* entry holds two variants, and the second is still pending.
C15_Witness ==
  \E t \in BagToSet(tasks) :
    /\ t.type = "put"
    /\ t.by = "AttributesHit"
    /\ kv[t.id] # NoEntry
    /\ kv[t.id].renderedHtml = t.renderedHtml
    /\ Cardinality(DOMAIN t.renderedHtml) = 2
    /\ log.step = "PutLand"
    /\ log.task = t

\* The write a single revalidation issues from snapshot `cached` for
\* (stars, level) when upstream answers `fresh` (index.js lines 86-96).
RevalidationWrite(id, stars, level, cached, fresh) ==
  PutTask("Revalidation", id, stars, level, fresh,
          updateCachedHtml([cached EXCEPT !.routeData = fresh,
                              !.dataHash = generateDataHash(fresh)],
                           stars, level,
                           renderRouteStatsCard(fresh, stars, level)).renderedHtml)

C17_VariantHitExactPair ==
  (resp.status # 0 /\ resp.path = "VariantHit")
    => resp.body = renderRouteStatsCard(resp.cached.routeData,
                                        resp.req.stars, resp.req.level)

\* C18 (as claimed): whatever the attribute record, the score is an
\* integer from 1 to 5.
C18_ScoreInRange ==
  log.step = "calculateTechnicalDifficulty" => log.score \in 1..5

\* C19 (as claimed): a record whose surface is paved scores exactly 1.
C19_PavedScoresOne ==
  (log.step = "calculateTechnicalDifficulty" /\ log.routeData.surface = "paved")
    => log.score = 1

\* C20 (as claimed): a record whose surface is unknown scores at least 3.
C20_UnknownSurfaceAtLeastThree ==
  (log.step = "calculateTechnicalDifficulty"
   /\ log.routeData.surface = "unknown")
    => (log.score # NaN /\ log.score >= 3)

\* The rule table as C21 words it, on numbers only: base from the
\* difficulty, plus 1 for climbing, the cap or floor of the surface class,
\* the clamp to 1..5.
ReferenceScore(rd) ==
  LET base == CASE rd.difficulty = "casual" -> 1
                [] rd.difficulty = "easy" -> 2
                [] rd.difficulty = "moderate" -> 3
                [] rd.difficulty = "hard" -> 4
                [] OTHER -> IF rd.terrain = "climbing" THEN 3 ELSE 2
      raw == base + (IF rd.terrain = "climbing" THEN 1 ELSE 0)
      below == UnpavedBelow1Km(rd.distanceKm, rd.distance, rd.unpavedPct)
      free == rd.terrain = "climbing" \/ rd.difficulty = "hard"
      capped == CASE rd.surface = "paved" -> Min(raw, 1)
                  [] rd.surface = "mostly_paved" ->
                       IF below THEN Min(raw, 1) ELSE Min(raw, 2)
                  [] rd.surface = "mixed_surfaces" ->
                       IF below THEN Min(raw, 2)
                       ELSE IF free THEN raw ELSE Min(raw, 3)
                  [] rd.surface = "mostly_unpaved" ->
                       IF free THEN raw ELSE Min(raw, 3)
                  [] rd.surface = "unknown" -> Max(raw, 3)
                  [] OTHER -> raw
  IN Min(5, Max(1, capped))

\* C21 (as claimed): for every attribute record the score is the one the
\* rule table gives.
C21_ScoreMatchesRuleTable ==
  log.step = "calculateTechnicalDifficulty"
    => log.score = ReferenceScore(log.routeData)

\* C22: on both endpoints a method other than GET and OPTIONS is answered
\* 405 before any validation, cache access or fetch (nothing is read,
\* deleted, queued or spawned, whatever the parameters), and OPTIONS on any
\* path is answered by an empty 204 with the CORS headers and touches
\* nothing either.
C22_MethodGate ==
  [][log'.step = "handleRequest" =>
       /\ log'.req.method = "OPTIONS" =>
            /\ resp'.status = 204
            /\ resp'.body = Null
            /\ resp'.headers = CORS_HEADERS
            /\ UNCHANGED <<kv, upstream, reqs, tasks>>
       /\ (log'.req.method \notin {"GET", "OPTIONS"}
             /\ log'.req.path \in {"/club-routes", "/route-stats"}) =>
            /\ resp'.status = 405
            /\ resp'.body = [error |-> "Method not allowed"]
            /\ UNCHANGED <<kv, upstream, reqs, tasks>>]_vars

C22_Witness ==
  /\ log.step = "handleRequest"
  /\ log.req.method = "POST"
  /\ log.req.path = "/route-stats"
  /\ log.req.purge = "true"
  /\ log.req.query.id = NullStr
  /\ resp.status = 405
  /\ kv["101"] # NoEntry

\* C23: GET /club-routes with a stored list (the empty list included)
\* answers 200 with that list and fetches nothing; with no stored list it
\* goes through fetchClubRoutes once (pages 1..n, each fetched once),
\* answers 200 with the fetched list and spawns the write of that list,
\* which lands in the store; a failing fetch answers 500 with a JSON error
\* and neither writes nor spawns a write of the index.
C23_ClubRoutesEndpoint ==
  [][/\ log'.step = "ClubLookup" =>
          IF kv[ClubKey] # NoEntry
            THEN /\ resp'.status = 200
                 /\ resp'.path = "ClubHit"
                 /\ resp'.body = [routes |-> kv[ClubKey].routes]
                 /\ resp'.req.fetches = 0
                 /\ UNCHANGED <<kv, tasks>>
          ELSE resp' = NoResponse /\ UNCHANGED <<kv, tasks>>
     /\ log'.step = "ClubFetchPage" =>
          IF log'.status # 200
            THEN /\ resp'.status = 500
                 /\ resp'.contentType = "application/json"
                 /\ DOMAIN resp'.body = {"error"}
                 /\ UNCHANGED <<kv, tasks>>
          ELSE resp'.status # 0 =>
                 /\ resp'.status = 200
                 /\ resp'.path = "ClubMiss"
                 /\ resp'.req.fetches = resp'.req.page
                 /\ resp'.req.fetches >= 1
                 /\ tasks' = tasks (+) SetToBag({ClubPutTask(resp'.body.routes)})
                 /\ UNCHANGED kv
     /\ log'.step = "ClubPutLand" =>
          \E t \in BagToSet(tasks) :
            /\ t.type = "clubput"
            /\ kv'[ClubKey] # NoEntry
            /\ kv'[ClubKey].routes = t.routes]_vars

C23_Witness ==
  /\ resp.status = 200
  /\ resp.path = "ClubHit"
  /\ resp.body = [routes |-> << >>]
  /\ kv[ClubKey] # NoEntry
  /\ kv[ClubKey].routes = << >>

\* What the listing yields when pages 1..n are read in order.
RECURSIVE ListedPairs(_, _)
ListedPairs(listing, n) ==
  IF n = 0 THEN << >>
  ELSE LET page == ServedPage(listing, n)
           routes == IF page.hasRoutes THEN page.routes ELSE << >>
       IN ListedPairs(listing, n - 1)
            \o [i \in 1..Len(routes) |->
                  [id |-> routes[i].id, name |-> routes[i].name]]

\* The first page without pagination metadata, without a next page, or
\* with fewer routes than the page size.
FirstClosingPage(listing) ==
  CHOOSE n \in 1..(Len(listing) + 1) :
    /\ \A k \in 1..n :
         LET page == ServedPage(listing, k)
             closing == \/ page.pagination # "next"
                        \/ ~page.hasRoutes
                        \/ Len(page.routes) < PAGE_SIZE
         IN closing <=> k = n

\* C24: fetchClubRoutes requests pages 1, 2, 3, ... in order, each once,
\* never a page past the first closing page (so it ends when upstream
\* serves one); it returns the (id, name) pairs of the pages read,
\* concatenated in page order; a non-success status on any page fails the
\* call with an error and no partial list.
C24_FetchClubRoutesPaging ==
  LET listing == upstream[ClubKey]
      last == FirstClosingPage(listing)
  IN /\ \A r \in BagToSet(reqs) :
          r.pc = "fetch" =>
            /\ r.page <= last
            /\ r.fetches = r.page - 1
            /\ r.allRoutes = ListedPairs(listing, r.page - 1)
     /\ (resp.status = 200 /\ resp.path = "ClubMiss") =>
          /\ resp.req.page = last
          /\ resp.req.fetches = last
          /\ resp.body = [routes |-> ListedPairs(listing, last)]
     /\ (log.step = "ClubFetchPage" /\ log.status # 200) =>
          /\ resp.status = 500
          /\ DOMAIN resp.body = {"error"}
          /\ resp.spawned = EmptyBag

C24_Witness ==
  /\ resp.status = 200
  /\ resp.path = "ClubMiss"
  /\ resp.req.fetches = 2
  /\ Len(resp.body.routes) = PAGE_SIZE + 1
  /\ resp.body.routes[1].id = 1001
  /\ resp.body.routes[PAGE_SIZE + 1].id = 2001

\* A club index and a route entry of the same age are both in the store.
SameAge ==
  /\ kv[ClubKey] # NoEntry
  /\ kv["101"] # NoEntry
  /\ kv[ClubKey].lastFetchedAge = kv["101"].lastFetchedAge

\* C27 (as claimed): the club index has a hard TTL longer than the hard TTL
\* of a route entry: when time drops a club index, a route entry of the
\* same age is dropped too.
C27_ClubIndexOutlivesRoute ==
  [][(log'.step = "ClubTick" /\ SameAge /\ kv'[ClubKey] = NoEntry)
       => kv'["101"] = NoEntry]_vars

\* C27 (amended): the club index has its own hard TTL of 3600 s, shorter
\* than the 86400 s of a route entry: a stored club index is always younger
\* than 3600 s, and when time drops it a route entry of the same age is
\* kept, then 3600 s old.
C27_ClubIndexExpiresFirst ==
  [][/\ CLUB_ROUTES_TTL_SECONDS < CACHE_TTL_SECONDS
     /\ kv'[ClubKey] # NoEntry =>
          kv'[ClubKey].lastFetchedAge < CLUB_ROUTES_TTL_SECONDS
     /\ (log'.step = "ClubTick" /\ SameAge) =>
          /\ kv'[ClubKey] = NoEntry
          /\ kv'["101"] # NoEntry
          /\ kv'["101"].lastFetchedAge = CLUB_ROUTES_TTL_SECONDS]_vars

C27_Witness ==
  /\ log.step = "ClubPutLand"
  /\ SameAge
  /\ kv[ClubKey].routes # << >>

C25_FetchOutcomeMapping ==
  log.step = "fetchRouteData" =>
    LET call == log.call
        result == log.result
    IN IF call.status \in 200..299
         THEN result = [ok |-> TRUE,
                        routeData |-> normalizeRouteData(call.route)]
       ELSE /\ ~result.ok
            /\ DOMAIN result = {"ok", "message"}
            /\ result.message =
                 CASE call.status = 404 -> <<"Route", call.routeId, "not found">>
                   [] call.status = 401 -> <<"RWGPS authentication failed">>
                   [] OTHER -> <<"RWGPS API error", ToString(call.status)>>

C25_Witness ==
  /\ log.step = "fetchRouteData"
  /\ log.call.status = 403
  /\ log.call.routeId = "202"
  /\ ~log.result.ok
  /\ log.result.message = <<"RWGPS API error", "403">>

\* C26: isStale of an entry is true exactly when its age exceeds the
\* staleness threshold of 3600 s or its lastFetched is missing; the
\* threshold is below the hard TTL of 86400 s, every stored entry is younger
\* than the hard TTL, and a request that reads an entry, stale or not, is
\* served from it and leaves it in the store as it was read.
C26_StaleThreshold ==
  /\ STALE_THRESHOLD_SECONDS < CACHE_TTL_SECONDS
  /\ \A i \in RouteIds :
       kv[i] # NoEntry =>
         /\ isStale(kv[i]) <=> kv[i].lastFetchedAge > STALE_THRESHOLD_SECONDS
         /\ isStale([kv[i] EXCEPT !.lastFetchedAge = Undefined])
         /\ kv[i].lastFetchedAge < CACHE_TTL_SECONDS
  /\ (Answered /\ resp.path \in {"VariantHit", "AttributesHit"}) =>
       /\ kv[resp.req.id] = resp.cached
       /\ resp.status = 200
       /\ resp.path = "VariantHit" =>
            resp.body = resp.cached.renderedHtml[KeyOf(resp.req)]

\* An entry aged between the threshold and the hard TTL is read and served.
C26_Witness ==
  /\ Answered
  /\ resp.path = "VariantHit"
  /\ resp.cached.lastFetchedAge > STALE_THRESHOLD_SECONDS
  /\ resp.cached.lastFetchedAge < CACHE_TTL_SECONDS
  /\ isStale(resp.cached)
  /\ kv[resp.req.id] = resp.cached

\* The revalidations a response has handed to ctx.waitUntil.
SpawnedRevalidations == {t \in BagToSet(resp.spawned) : t.type = "reval"}

\* C28: a response of the VariantHit or the AttributesHit branch has handed
\* over a revalidation if and only if the entry it read is older than the
\* staleness threshold; the revalidation is still pending when the response
\* is returned and the request itself has fetched nothing (so a request
\* that reads a non-stale entry causes no fetch at all); a Miss response has
\* handed over no revalidation.
C28_RevalidationIffStale ==
  /\ (Answered /\ resp.path \in {"VariantHit", "AttributesHit"}) =>
       /\ SpawnedRevalidations # {}
            <=> resp.cached.lastFetchedAge > STALE_THRESHOLD_SECONDS
       /\ Cardinality(SpawnedRevalidations) <= 1
       /\ \A t \in SpawnedRevalidations :
            BagIn(t, tasks) /\ t.id = resp.req.id
       /\ resp.req.fetches = 0
  /\ (Answered /\ resp.path = "Miss") => SpawnedRevalidations = {}

\* A stale entry without the requested variant: the write of the variant and
\* the revalidation are both handed over.
C28_Witness ==
  /\ Answered
  /\ resp.path = "AttributesHit"
  /\ resp.cached.lastFetchedAge > STALE_THRESHOLD_SECONDS
  /\ SpawnedRevalidations # {}
  /\ BagCardinality(resp.spawned) = 2

\* C30: a purge=true request that is answered from upstream has had the
\* entry deleted and hands over the write of the fetched attributes with the
\* one variant it rendered; when a write of the miss path lands, the entry
\* is exactly that write (the fetched attributes, the one variant, age 0),
\* so no variant stored before remains; and a request with the same id,
\* stars and level and no purge that reads the store right after is answered
\* as a VariantHit with that HTML, fetches nothing and spawns nothing.
C30_PurgeThenVariantHit ==
  [][/\ (resp'.status = 200 /\ resp'.path = "Miss" /\ resp'.req.purge) =>
          /\ resp'.req.deleted.deleted
          /\ resp'.req.fetches = 1
          /\ resp'.spawned =
               SetToBag({PutTask("Miss", resp'.req.id, resp'.req.stars,
                                 resp'.req.level,
                                 normalizeRouteData(upstream[resp'.req.id]),
                                 KeyOf(resp'.req) :> resp'.body)})
     /\ (log'.step = "PutLand" /\ log'.task.by = "Miss") =>
          LET t == log'.task
          IN /\ kv'[t.id] # NoEntry
             /\ kv'[t.id].routeData = t.routeData
             /\ kv'[t.id].renderedHtml = t.renderedHtml
             /\ DOMAIN kv'[t.id].renderedHtml = {KeyOf(t)}
             /\ kv'[t.id].lastFetchedAge = 0
     /\ (/\ log.step = "PutLand"
         /\ log.task.by = "Miss"
         /\ log' = NoLog
         /\ resp'.status # 0
         /\ resp'.path # "Validation"
         /\ resp'.req.pc = "lookup"
         /\ ~resp'.req.purge
         /\ resp'.req.id = log.task.id
         /\ resp'.req.stars = log.task.stars
         /\ resp'.req.level = log.task.level) =>
          /\ resp'.status = 200
          /\ resp'.path = "VariantHit"
          /\ resp'.body = log.task.renderedHtml[KeyOf(log.task)]
          /\ resp'.req.fetches = 0
          /\ resp'.spawned = EmptyBag]_vars

\* A purge that removed an entry holding another variant has been answered
\* from upstream; its write is pending and the store holds no entry.
C30_Witness ==
  /\ resp.status = 200
  /\ resp.path = "Miss"
  /\ resp.req.purge
  /\ resp.req.deleted.entry # NoEntry
  /\ KeyOf(resp.req) \notin DOMAIN resp.req.deleted.entry.renderedHtml
  /\ kv[resp.req.id] = NoEntry
  /\ resp.spawned # EmptyBag
  /\ \A t \in BagToSet(resp.spawned) : BagIn(t, tasks)

\* C31 (as claimed): when the write of a revalidation that saw a changed
\* hash has landed, every variant the entry holds is the rendering of the
\* attributes that write stored.
C31_RevalidationLeavesNoOldVariant ==
  (log.step = "PutLand" /\ log.task.by = "Revalidation") =>
    \A p \in VariantPairs :
      getHtmlCacheKey(p[1], p[2]) \in DOMAIN kv[log.task.id].renderedHtml =>
        kv[log.task.id].renderedHtml[getHtmlCacheKey(p[1], p[2])]
          = renderRouteStatsCard(log.task.routeData, p[1], p[2])

\* C32 (as claimed): when a revalidation has completed without error, by
\* finding the data unchanged or by its write landing, the entry of its
\* route is not stale, so that the next request spawns no revalidation.
C32_RevalidationRefreshesEntry ==
  /\ (/\ log.step = "RevalFetch"
      /\ log.ok
      /\ log.line = "Data unchanged, skipping update"
      /\ kv[log.task.id] # NoEntry) => ~isStale(kv[log.task.id])
  /\ (log.step = "PutLand" /\ log.task.by = "Revalidation") =>
       ~isStale(kv[log.task.id])

\* C33 (as claimed): the age of an entry restarts only when a write of
\* attributes just fetched from upstream lands (the write of a miss or of a
\* revalidation); the write that adds a variant rendered from the
\* attributes already cached does not restart it.
C33_LastFetchedOnlyAtFetch ==
  [][\A i \in RouteIds :
       (/\ kv'[i] # NoEntry
        /\ kv[i] # NoEntry
        /\ kv'[i].lastFetchedAge < kv[i].lastFetchedAge)
         => /\ log'.step = "PutLand"
            /\ log'.task.by \in {"Miss", "Revalidation"}]_vars

\* C34 (as claimed): a variant key once stored in an entry stays in it
\* through every write, until the entry expires or is purged.
C34_NoVariantLost ==
  [][\A i \in RouteIds :
       (kv[i] # NoEntry /\ kv'[i] # NoEntry)
         => DOMAIN kv[i].renderedHtml \subseteq DOMAIN kv'[i].renderedHtml]_vars

\* C35 (as claimed): with the route edited upstream once, an entry that
\* holds the attributes fetched after the edit is never overwritten with
\* the attributes fetched before it.
C35_AttributesNeverRegress ==
  [][\A i \in RouteIds :
       (/\ kv[i] # NoEntry
        /\ kv[i].routeData = JsonRoundTrip(normalizeRouteData(RouteB))
        /\ kv'[i] # NoEntry)
         => kv'[i].routeData = kv[i].routeData]_vars

\* C36: the delete of a purge=true request leaves no entry for the route;
\* when its upstream fetch then fails the request is answered with the
\* error card (200, HTML, no hash) and neither writes the store nor hands
\* over a write, so nothing it does restores the entry; and a request
\* without purge that reads the store while the entry is absent goes on to
\* the upstream fetch of the miss path.
C36_FailedPurgeLeavesNoEntry ==
  [][/\ log'.step = "PurgeDelete" =>
          \A r \in BagToSet(reqs) : r.pc = "purge" => kv'[r.id] = NoEntry
     /\ (/\ resp'.status # 0
         /\ resp'.path = "Error"
         /\ resp'.req.purge
         /\ resp'.req.fetches = 1) =>
          /\ resp'.status = 200
          /\ resp'.contentType = "text/html"
          /\ resp'.dataHash = NoHash
          /\ \E st \in FetchStatuses \ {200} :
               resp'.body =
                 renderErrorCard(fetchRouteData(resp'.req.id, st, RouteA).message)
          /\ resp'.req.deleted.deleted
          /\ resp'.spawned = EmptyBag
          /\ UNCHANGED <<kv, tasks>>
     /\ \A r \in BagToSet(reqs) :
          (/\ r.pc = "lookup"
           /\ ~r.purge
           /\ kv[r.id] = NoEntry
           /\ log' = NoLog
           /\ ~BagIn(r, reqs')) =>
            /\ BagIn([r EXCEPT !.pc = "fetch"], reqs')
            /\ resp' = NoResponse]_vars

\* A purge that removed a stored entry has been answered with the error
\* card; the store holds no entry and no write is pending.
C36_Witness ==
  /\ resp.status = 200
  /\ resp.path = "Error"
  /\ resp.req.purge
  /\ resp.req.fetches = 1
  /\ resp.req.deleted.entry # NoEntry
  /\ kv[resp.req.id] = NoEntry
  /\ tasks = EmptyBag

\* C37 (as claimed): whatever the stars query string, a request that passed
\* validation carries no stars or an integer from 1 to 5, and the stars
\* part of every stored variant key is none or one of 1..5.
C37_StarsAbsentOrInRange ==
  /\ \A r \in BagToSet(reqs) : r.stars = Null \/ r.stars \in 1..5
  /\ \A i \in RouteIds :
       kv[i] # NoEntry =>
         \A k \in DOMAIN kv[i].renderedHtml :
           k[2] \in {"none"} \cup {ToString(n) : n \in 1..5}

\* The unpaved distance of a record is a number of at least 1 km.
UnpavedAtLeast1Km(rd) ==
  /\ rd.unpavedPct # Undefined
  /\ rd.unpavedPct >= 0
  /\ rd.distance # Undefined
  /\ rd.unpavedPct * rd.distance >= 100000

\* C38 (as claimed): the score is 5 exactly when the difficulty is hard,
\* the terrain is climbing and the surface is mostly_unpaved, unknown, or
\* mixed_surfaces with at least 1 km unpaved; and on paved, mostly_paved,
\* mixed_surfaces and mostly_unpaved the score never exceeds base score
\* plus terrain modifier.
C38_FiveOnlyOnRoughHardClimbs ==
  log.step = "calculateTechnicalDifficulty" =>
    LET rd == log.routeData
        raw == Plus(getBaseScore(rd.difficulty, rd.terrain),
                    getTerrainModifier(rd.terrain))
    IN /\ log.score = 5 <=>
            /\ rd.difficulty = "hard"
            /\ rd.terrain = "climbing"
            /\ \/ rd.surface \in {"mostly_unpaved", "unknown"}
               \/ rd.surface = "mixed_surfaces" /\ UnpavedAtLeast1Km(rd)
       /\ rd.surface \in {"paved", "mostly_paved", "mixed_surfaces",
                           "mostly_unpaved"}
            => ~(log.score # NaN /\ raw # NaN /\ log.score > raw)

\* C39 (as claimed): a promise loadMapboxJS returned that is pending while
\* no script load is in flight (the load it waited for has completed or
\* failed) is eventually settled.
C39_EveryLoaderPromiseSettles ==
  \A c \in Containers :
    (log.promises[c].state = "pending" /\ log.script = 0)
      ~> (log.promises[c].state \in {"resolved", "rejected"})

====
